---- MODULE Spec2Model ----
(***************************************************************************)
(* A model of saifltr/Echo: the AudioRecorder (src/audio_recorder.py) with *)
(* its capture thread, and the AnonymousGoogleMeetBot session controller   *)
(* (src/meet_bot.py) with its signal handler and atexit hook.              *)
(*                                                                         *)
(* The controlling (main) thread is a call stack of program positions; the *)
(* capture threads run concurrently with it.  Two specifications share the *)
(* recorder's actions:                                                     *)
(*   Spec     an arbitrary caller of AudioRecorder.start_recording and     *)
(*            AudioRecorder.stop_recording;                                *)
(*   SpecBot  AnonymousGoogleMeetBot.run from construction to process exit,*)
(*            with SIGINT/SIGTERM delivered between any two steps.         *)
(* None is modelled as 0 for object references and as -1 for times and     *)
(* filenames.                                                              *)
(***************************************************************************)
EXTENDS Integers, Sequences, FiniteSets, TLC

\* ------------------------------------------------------------------ bounds
\* Free-running clock ticks are explored up to MaxTime; a join timeout
\* elapses in one step beyond it.
MaxTime == 2
\* Capture streams (recording sessions) opened per recorder.
MaxSessions == 2
\* Blocks held by the frame buffer.
MaxFrames == 2
\* Signals delivered to the process.
MaxSignals == 1
\* Iterations of the monitoring loop.
MaxChecks == 2
\* Iterations of the monitoring loop when no signal is delivered.
MaxQuietChecks == 5
\* Samples in a block handed to the level estimate.
MaxSamples == 2

\* ------------------------------------------------------- program constants
\* audio_thread.join(timeout=10)
JoinTimeout == 10

\* if check_count % 5 == 0
MediaCheckEvery == 5

\* self.channels, self.rate, self.chunk, and the bytes of a paInt16 sample
channels == 2
rate == 44100
chunk == 1024
SampleWidth == 2

\* The clock ticks twice per wall-clock second: it is finer than the %S of
\* the filename's timestamp.
TicksPerSecond == 2

VARIABLES
    \* AudioRecorder fields
    is_recording, frames, total_frames_recorded, recording_start_time,
    recording_filename, audio_stream, audio_thread,
    \* capture threads: position in _record_audio
    tpc,
    \* wall clock in ticks, and the clock at the start of the pending join
    now, joinStart,
    \* controlling thread: call stack (top last), last returned value
    stack, ret,
    \* the file system: the names of the files written, in order
    writeLog,
    \* the default input device as get_default_input_device_info reports it
    \* (maxInputChannels, defaultSampleRate), and the channels and rate the
    \* capture stream was last opened with
    device_info, stream_format,
    \* the page the browser shows, and the results of detect_disconnection
    \* on it (none before the call)
    current_page, disconnected,
    \* the browser steps of join_meeting: the progress of
    \* try_meeting_url_variations
    nav,
    \* and of enter_name and find_and_click_join_button
    entry,
    \* _log_recording_stats at work on a buffer: its inputs and what it
    \* logged
    level,
    \* the microphone and the camera, their controls in the page, and the
    \* progress of ensure_muted_and_camera_off
    media,
    \* history: filename of each session opened; drains of the current
    \* session's buffer
    sessFile, drains,
    \* AnonymousGoogleMeetBot fields: the browser driver ("none", "open",
    \* "quit"), enable_recording (the recorder exists iff it is set),
    \* recording_filename (-1 for None), is_in_meeting
    driver, enable_recording, bot_recording_filename, is_in_meeting,
    \* locals of join_meeting / stay_in_meeting
    status, recording_started, check_count,
    \* the exception in flight on the controlling thread ("none",
    \* "SystemExit", "Exception"), and the signals delivered so far
    exc, nsignals,
    \* history: the driver was opened; completed runs of cleanup; a signal
    \* arrived while a recording with a non-empty buffer was active or being
    \* stopped
    opened, cleanups, sigBuffered

recVars == <<is_recording, frames, total_frames_recorded, recording_start_time,
             recording_filename, audio_stream, audio_thread>>
thrVars == <<tpc>>
fsVars == <<writeLog>>
obsVars == <<current_page, disconnected>>
joinVars == <<nav, entry, level, media>>
envVars == <<device_info, stream_format, obsVars, joinVars>>
histVars == <<sessFile, drains>>
botVars == <<driver, enable_recording, bot_recording_filename, is_in_meeting,
             status, recording_started, check_count, opened, cleanups>>
sigVars == <<exc, nsignals, sigBuffered>>
ctlVars == <<botVars, sigVars>>
vars == <<recVars, thrVars, now, joinStart, stack, ret, fsVars, envVars,
          histVars, ctlVars>>

Threads == 1..MaxSessions

\* ----------------------------------------------------------- return values
\* no call has returned since the caller's last call
RetPending == [k |-> "pending", v |-> 0, data |-> <<>>]
RetNone == [k |-> "None", v |-> 0, data |-> <<>>]
RetBool(b) == [k |-> "bool", v |-> IF b THEN 1 ELSE 0, data |-> <<>>]
\* a returned path, with the payload of the file just written there
\* None returned after the warning that there is no audio data to save
RetNoAudioData ==
    [k |-> "None", v |-> 0, data |-> <<>>, warning |-> "No audio data to save"]
RetPath(f, payload) == [k |-> "path", v |-> f, data |-> payload]

\* ------------------------------------------------------------- call stack
\* The position of the controlling thread; while an exception propagates no
\* statement runs.
Top == IF stack = <<>> THEN "exited"
       ELSE IF exc # "none" THEN "unwinding"
       ELSE stack[Len(stack)]
Pop == SubSeq(stack, 1, Len(stack) - 1)
Goto(l) == [stack EXCEPT ![Len(stack)] = l]
Call(callee, resume) == Append(Goto(resume), callee)

\* datetime.now().strftime("%Y%m%d_%H%M%S"): the clock cut to whole seconds
Timestamp(t) == t \div TicksPerSecond

\* get_recording_filename: meeting_recording_{timestamp}.wav, named by its
\* timestamp
get_recording_filename == Timestamp(now)

Max(a, b) == IF a >= b THEN a ELSE b
Min(a, b) == IF a <= b THEN a ELSE b

\* Device(c, r): a default input device with c input channels and default
\* sample rate r.
Device(c, r) == [maxInputChannels |-> c, defaultSampleRate |-> r]

\* OpenFormat asking for the configured channels and rate whatever the
\* device reports
OpenFormat_Configured(dev) ==
    [channels |-> channels, rate |-> rate]

\* self.audio.open(channels=min(self.channels, maxInputChannels),
\* rate=int(min(self.rate, defaultSampleRate)), ...): the format of the
\* stream opened on the device
OpenFormat(dev) ==
    [channels |-> Min(channels, dev.maxInputChannels),
     rate |-> Min(rate, dev.defaultSampleRate)]

\* No stream has been opened.
NoFormat == [channels |-> 0, rate |-> 0]

\* The default input devices considered: fewer, as many and more channels
\* than configured, and a lower, the same and a higher default rate.
Devices ==
    { Device(c, r) : c \in {1, 2, 4}, r \in {22050, 44100, 48000} }

\* stream.read(self.chunk): a block of chunk frames, one sample of
\* SampleWidth bytes per channel of the stream
BlockBytes == chunk * stream_format.channels * SampleWidth

\* b''.join(self.frames): the bytes of the payload made of the blocks
PayloadBytes(blocks) == Len(blocks) * BlockBytes

\* wf.setnchannels(self.channels); wf.setsampwidth(get_sample_size(format));
\* wf.setframerate(self.rate): the header of the file written
WaveHeader ==
    [nchannels |-> channels, sampwidth |-> SampleWidth, framerate |-> rate]

\* ---------------------------------------------------------------- the clock
\* Positions where the controlling thread is idle, asleep or blocked: the
\* clock advances there, every other step takes no time.
SleepPoints == {"client", "stop_wait"}

Tick ==
    /\ Top \in SleepPoints
    /\ UNCHANGED ctlVars
    /\ now < MaxTime
    /\ now' = now + 1
    /\ UNCHANGED <<recVars, thrVars, joinStart, stack, ret, fsVars, envVars, histVars>>

\* ------------------------------------------- AudioRecorder.start_recording
\* if self.is_recording: return False
StartAlready ==
    /\ stack' = Pop
    /\ ret' = RetBool(FALSE)
    /\ UNCHANGED <<recVars, thrVars, now, joinStart, fsVars, envVars, histVars>>

\* get_default_input_device_info raises: return False before line 76
StartNoDevice ==
    /\ stack' = Pop
    /\ ret' = RetBool(FALSE)
    /\ UNCHANGED <<recVars, thrVars, now, joinStart, fsVars, envVars, histVars>>

\* StartOpenFails with the recorder marked as recording before the open
StartOpenFails_FlagFirst ==
    /\ recording_filename' = get_recording_filename
    /\ is_recording' = TRUE
    /\ stack' = Pop
    /\ ret' = RetBool(FALSE)
    /\ UNCHANGED <<frames, total_frames_recorded,
                   recording_start_time, audio_stream, audio_thread,
                   thrVars, now, joinStart, fsVars, envVars, histVars>>

\* the filename is assigned, then self.audio.open raises: return False
StartOpenFails ==
    /\ recording_filename' = get_recording_filename
    /\ stack' = Pop
    /\ ret' = RetBool(FALSE)
    /\ UNCHANGED <<is_recording, frames, total_frames_recorded,
                   recording_start_time, audio_stream, audio_thread,
                   thrVars, now, joinStart, fsVars, envVars, histVars>>

\* the filename is assigned, the stream opens, the fields are reset and the
\* capture thread is created and started: return True
StartOk ==
    /\ Len(sessFile) < MaxSessions
    /\ recording_filename' = get_recording_filename
    /\ audio_stream' = Len(sessFile) + 1
    /\ is_recording' = TRUE
    /\ frames' = <<>>
    /\ recording_start_time' = now
    /\ total_frames_recorded' = 0
    /\ audio_thread' = Len(sessFile) + 1
    /\ tpc' = [tpc EXCEPT ![Len(sessFile) + 1] = "loop"]
    /\ sessFile' = Append(sessFile, get_recording_filename)
    /\ drains' = 0
    /\ stack' = Pop
    /\ ret' = RetBool(TRUE)
    /\ stream_format' = OpenFormat(device_info)
    /\ UNCHANGED <<now, joinStart, fsVars, device_info, obsVars, joinVars>>

start_recording_NoGuard ==
    /\ Top = "start_entry"
    /\ UNCHANGED ctlVars
    /\ (StartNoDevice \/ StartOpenFails \/ StartOk)

start_recording ==
    /\ Top = "start_entry"
    /\ UNCHANGED ctlVars
    /\ IF is_recording
         THEN StartAlready
         ELSE StartNoDevice \/ StartOpenFails \/ StartOk

\* -------------------------------------------- AudioRecorder._record_audio
\* Capture threads are daemon threads: they run while the process lives.
\* while self.is_recording: self.audio_stream.read(...) is entered; on a
\* None stream the AttributeError is caught, the thread sleeps 0.1 s and
\* loops
ThreadLoop(t) ==
    /\ stack # <<>>
    /\ UNCHANGED ctlVars
    /\ tpc[t] = "loop"
    /\ tpc' = [tpc EXCEPT ![t] = IF ~is_recording THEN "done"
                                 ELSE IF audio_stream = 0 THEN "loop"
                                 ELSE "blocked"]
    /\ UNCHANGED <<recVars, now, joinStart, stack, ret, fsVars, envVars, histVars>>

\* the read returns a block: self.frames.append(data)
ThreadAppend(t) ==
    /\ stack # <<>>
    /\ UNCHANGED ctlVars
    /\ tpc[t] = "blocked"
    /\ Len(frames) < MaxFrames
    /\ frames' = Append(frames, t)
    /\ tpc' = [tpc EXCEPT ![t] = "incr"]
    /\ UNCHANGED <<is_recording, total_frames_recorded, recording_start_time,
                   recording_filename, audio_stream, audio_thread, now,
                   joinStart, stack, ret, fsVars, envVars, histVars>>

\* ThreadReadError leaving the loop on the error
ThreadReadError_Exits(t) ==
    /\ stack # <<>>
    /\ UNCHANGED ctlVars
    /\ tpc[t] = "blocked"
    /\ tpc' = [tpc EXCEPT ![t] = "done"]
    /\ UNCHANGED <<recVars, now, joinStart, stack, ret, fsVars, envVars, histVars>>

\* the read raises: logged, sleep 0.1 s, loop
ThreadReadError(t) ==
    /\ stack # <<>>
    /\ UNCHANGED ctlVars
    /\ tpc[t] = "blocked"
    /\ tpc' = [tpc EXCEPT ![t] = "loop"]
    /\ UNCHANGED <<recVars, now, joinStart, stack, ret, fsVars, envVars, histVars>>

\* self.total_frames_recorded += 1 (no call inside: one interpreter step)
ThreadIncr(t) ==
    /\ stack # <<>>
    /\ UNCHANGED ctlVars
    /\ tpc[t] = "incr"
    /\ total_frames_recorded' = total_frames_recorded + 1
    /\ tpc' = [tpc EXCEPT ![t] = "loop"]
    /\ UNCHANGED <<is_recording, frames, recording_start_time,
                   recording_filename, audio_stream, audio_thread, now,
                   joinStart, stack, ret, fsVars, envVars, histVars>>

\* --------------------------------------------- AudioRecorder.stop_recording
\* if not self.is_recording: return None
StopInactive ==
    /\ stack' = Pop
    /\ ret' = RetNone
    /\ UNCHANGED <<recVars, thrVars, now, joinStart, fsVars, envVars, histVars>>

\* self.is_recording = False; if self.audio_thread: join(timeout=10) begins
StopSignal ==
    /\ is_recording' = FALSE
    /\ IF audio_thread # 0
         THEN /\ stack' = Goto("stop_wait")
              /\ joinStart' = now
         ELSE /\ stack' = Goto("stop_save")
              /\ joinStart' = joinStart
    /\ UNCHANGED <<frames, total_frames_recorded, recording_start_time,
                   recording_filename, audio_stream, audio_thread, thrVars,
                   now, ret, fsVars, envVars, histVars>>

stop_recording_NoGuard ==
    /\ Top = "stop_entry"
    /\ UNCHANGED ctlVars
    /\ StopSignal

stop_recording ==
    /\ Top = "stop_entry"
    /\ UNCHANGED ctlVars
    /\ IF ~is_recording THEN StopInactive ELSE StopSignal

\* the join returns because the capture thread has exited
StopJoinExited ==
    /\ Top = "stop_wait"
    /\ UNCHANGED ctlVars
    /\ tpc[audio_thread] = "done"
    /\ stack' = Goto("stop_save")
    /\ UNCHANGED <<recVars, thrVars, now, joinStart, ret, fsVars, envVars, histVars>>

StopJoinTimeout_NoWait ==
    /\ Top = "stop_wait"
    /\ UNCHANGED ctlVars
    /\ tpc[audio_thread] = "blocked"
    /\ stack' = Goto("stop_save")
    /\ UNCHANGED <<recVars, thrVars, now, joinStart, ret, fsVars, envVars, histVars>>

\* StopJoinTimeout for a join() without a timeout: it returns once the
\* thread has exited
StopJoinTimeout_Unbounded ==
    /\ Top = "stop_wait"
    /\ UNCHANGED ctlVars
    /\ tpc[audio_thread] = "done"
    /\ stack' = Goto("stop_save")
    /\ UNCHANGED <<recVars, thrVars, now, joinStart, ret, fsVars, envVars, histVars>>

\* the join returns because 10 s have passed; the thread is still alive,
\* blocked in its stream read
StopJoinTimeout ==
    /\ Top = "stop_wait"
    /\ UNCHANGED ctlVars
    /\ tpc[audio_thread] = "blocked"
    /\ now' = Max(now, joinStart + JoinTimeout * TicksPerSecond)
    /\ stack' = Goto("stop_save")
    /\ UNCHANGED <<recVars, thrVars, joinStart, ret, fsVars, envVars, histVars>>

\* finally: frames = []; total_frames_recorded = 0; start time = None
\* (and the join is over)
StopFinally ==
    /\ frames' = <<>>
    /\ total_frames_recorded' = 0
    /\ recording_start_time' = -1
    /\ joinStart' = -1

\* The stream is closed (errors tolerated) and set to None, then
\* if self.frames: the wave file is written and exists: return the filename
StopSaveOk ==
    /\ Top = "stop_save"
    /\ UNCHANGED ctlVars
    /\ frames # <<>>
    /\ audio_stream' = 0
    /\ writeLog' = Append(writeLog, recording_filename)
    /\ drains' = drains + 1
    /\ ret' = RetPath(recording_filename, frames)
    /\ StopFinally
    /\ stack' = Pop
    /\ UNCHANGED <<is_recording, recording_filename, audio_thread, thrVars,
                   now, sessFile, envVars>>

\* StopSaveFails returning from its except clause with no finally block
StopSaveFails_NoFinally ==
    /\ Top = "stop_save"
    /\ UNCHANGED ctlVars
    /\ frames # <<>>
    /\ audio_stream' = 0
    /\ drains' = drains + 1
    /\ ret' = RetNone
    /\ joinStart' = -1
    /\ stack' = Pop
    /\ UNCHANGED <<is_recording, frames, total_frames_recorded,
                   recording_start_time, recording_filename, audio_thread,
                   thrVars, now, fsVars, envVars, sessFile>>

\* StopSaveFails returning the filename although no file was written
StopSaveFails_ReturnsPath ==
    /\ Top = "stop_save"
    /\ UNCHANGED ctlVars
    /\ frames # <<>>
    /\ audio_stream' = 0
    /\ drains' = drains + 1
    /\ ret' = RetPath(recording_filename, frames)
    /\ StopFinally
    /\ stack' = Pop
    /\ UNCHANGED <<is_recording, recording_filename, audio_thread, thrVars,
                   now, fsVars, envVars, sessFile>>

\* if self.frames: wave.open / writeframes raises, or the file does not
\* exist afterwards: return None
StopSaveFails ==
    /\ Top = "stop_save"
    /\ UNCHANGED ctlVars
    /\ frames # <<>>
    /\ audio_stream' = 0
    /\ drains' = drains + 1
    /\ ret' = RetNone
    /\ StopFinally
    /\ stack' = Pop
    /\ UNCHANGED <<is_recording, recording_filename, audio_thread, thrVars,
                   now, fsVars, envVars, sessFile>>

\* StopSaveEmpty writing the file of a recording without blocks
StopSaveEmpty_WritesFile ==
    /\ Top = "stop_save"
    /\ UNCHANGED ctlVars
    /\ frames = <<>>
    /\ audio_stream' = 0
    /\ writeLog' = Append(writeLog, recording_filename)
    /\ drains' = drains + 1
    /\ ret' = RetPath(recording_filename, frames)
    /\ StopFinally
    /\ stack' = Pop
    /\ UNCHANGED <<is_recording, recording_filename, audio_thread, thrVars,
                   now, sessFile, envVars>>

\* else: logger.warning("No audio data to save - recording was empty"):
\* return None
StopSaveEmpty ==
    /\ Top = "stop_save"
    /\ UNCHANGED ctlVars
    /\ frames = <<>>
    /\ audio_stream' = 0
    /\ drains' = drains + 1
    /\ ret' = RetNoAudioData
    /\ StopFinally
    /\ stack' = Pop
    /\ UNCHANGED <<is_recording, recording_filename, audio_thread, thrVars,
                   now, fsVars, envVars, sessFile>>

\* ----------------------------------------- AudioRecorder.get_recording_status
\* get_recording_status reporting the recorder's fields whether or not a
\* recording is active
get_recording_status_Unguarded ==
    [is_recording |-> is_recording,
     duration |-> IF recording_start_time # -1
                    THEN now - recording_start_time ELSE 0,
     frames_captured |-> total_frames_recorded,
     filename |-> recording_filename]

\* The dictionary returned: the idle one if not self.is_recording, else the
\* time since recording_start_time (0 if that is None), the counter of
\* blocks and the filename.  The clock never reads 0.0, so that a start
\* time is false only when it is None.
get_recording_status ==
    IF ~is_recording
      THEN [is_recording |-> FALSE, duration |-> 0, frames_captured |-> 0,
            filename |-> -1]
      ELSE [is_recording |-> TRUE,
            duration |-> IF recording_start_time # -1
                           THEN now - recording_start_time ELSE 0,
            frames_captured |-> total_frames_recorded,
            filename |-> recording_filename]

\* a returned status dictionary
RetStatus(snapshot) ==
    [k |-> "status", v |-> 0, data |-> <<>>, snapshot |-> snapshot]

\* ------------------------------------------ a caller of the AudioRecorder
\* The caller asks for the status: the function reads the fields and
\* returns, without a point at which it waits.
ClientStatus ==
    /\ Top = "client"
    /\ UNCHANGED ctlVars
    /\ ret' = RetStatus(get_recording_status)
    /\ UNCHANGED <<recVars, thrVars, now, joinStart, stack, fsVars, envVars,
                   histVars>>

ClientStart ==
    /\ Top = "client"
    /\ UNCHANGED ctlVars
    /\ stack' = Call("start_entry", "client")
    /\ ret' = RetPending
    /\ UNCHANGED <<recVars, thrVars, now, joinStart, fsVars, envVars, histVars>>

ClientStop ==
    /\ Top = "client"
    /\ UNCHANGED ctlVars
    /\ stack' = Call("stop_entry", "client")
    /\ ret' = RetPending
    /\ UNCHANGED <<recVars, thrVars, now, joinStart, fsVars, envVars, histVars>>

\* ------------------------------------------------------- the browser page
\* What the controller can observe of the page: the current URL, the
\* structural in-call indicators that are found and displayed, the phrases
\* its lower-cased source contains, and whether the driver raises when asked.
\* A URL is the sequence of its parts: scheme, host, and what follows.
MeetDomain == "meet.google.com"
MeetUrl == <<"https://", "meet.google.com", "/abc-defg-hij">>
ElsewhereUrl == <<"https://", "www.google.com", "/">>
SignInUrl == <<"https://", "accounts.google.com", "/signin?continue=https://",
               "meet.google.com", "/abc-defg-hij">>
Urls == {MeetUrl, ElsewhereUrl, SignInUrl}

\* The host of a URL.
Host(url) == url[2]
\* part in url: the URL, as a string, contains the part
Contains(url, part) == \E i \in 1..Len(url) : url[i] = part

\* meeting_indicators
MeetingIndicators == {"Leave call", "data-meeting-title", "microphone", "camera"}
WaitingPhrases == {"waiting for the host", "ask to join",
                   "waiting for someone to let you in"}
EndedPhrases == {"meeting ended", "you left the meeting", "meeting has ended"}
DisconnectPhrases == {"you left the meeting", "you were removed",
                      "meeting ended", "meeting has ended"}
AllPhrases == WaitingPhrases \cup EndedPhrases \cup DisconnectPhrases

PageOf(u, i, txt, b) == [url |-> u, displayed |-> i, text |-> txt, broken |-> b]

\* The pages the session meets.
Pages ==
    { PageOf(MeetUrl, {}, {"ask to join"}, FALSE),
      PageOf(MeetUrl, {"Leave call"}, {}, FALSE),
      PageOf(MeetUrl, {"microphone", "camera"}, {"waiting for the host"}, FALSE),
      PageOf(MeetUrl, {}, {"meeting ended"}, FALSE),
      PageOf(MeetUrl, {}, {"you were removed"}, FALSE),
      PageOf(MeetUrl, {}, {}, FALSE),
      PageOf(ElsewhereUrl, {}, {}, FALSE),
      PageOf(SignInUrl, {}, {}, FALSE),
      PageOf(MeetUrl, {}, {}, TRUE) }

\* Every page: any URL, any indicators displayed, any phrases in the source.
AllPages ==
    { PageOf(u, i, txt, b) : u \in Urls, i \in SUBSET MeetingIndicators,
                             txt \in SUBSET AllPhrases, b \in BOOLEAN }

\* check_meeting_status looking at the text before the indicators
check_meeting_status_TextFirst(page) ==
    IF page.broken THEN "error"
    ELSE IF page.text \cap WaitingPhrases # {} THEN "waiting"
    ELSE IF page.text \cap EndedPhrases # {} THEN "ended"
    ELSE IF \E selector \in MeetingIndicators : selector \in page.displayed
      THEN "joined"
    ELSE "unknown"

\* AnonymousGoogleMeetBot.check_meeting_status
check_meeting_status(page) ==
    IF page.broken THEN "error"
    ELSE IF \E selector \in MeetingIndicators : selector \in page.displayed
      THEN "joined"
    ELSE IF \E phrase \in WaitingPhrases : phrase \in page.text THEN "waiting"
    ELSE IF \E phrase \in EndedPhrases : phrase \in page.text THEN "ended"
    ELSE "unknown"

\* detect_disconnection looking at the URL alone
detect_disconnection_UrlOnly(page) ==
    IF page.broken THEN TRUE
    ELSE ~Contains(page.url, "meet.google.com")

\* detect_disconnection returning False when the driver raises
detect_disconnection_FailOpen(page) ==
    IF page.broken THEN FALSE
    ELSE IF ~Contains(page.url, "meet.google.com") THEN TRUE
    ELSE \E phrase \in DisconnectPhrases : phrase \in page.text

\* AnonymousGoogleMeetBot.detect_disconnection
detect_disconnection(page) ==
    IF page.broken THEN TRUE
    ELSE IF ~Contains(page.url, "meet.google.com") THEN TRUE
    ELSE \E phrase \in DisconnectPhrases : phrase \in page.text

\* ----------------------------------------- the two functions on any page
\* check_meeting_status() is called on the page shown
Classify ==
    /\ status = "none"
    /\ status' = check_meeting_status(current_page)
    /\ UNCHANGED <<recVars, thrVars, now, joinStart, stack, ret, fsVars,
                   device_info, stream_format, current_page, disconnected,
                   histVars, sigVars, joinVars>>
    /\ UNCHANGED <<driver, enable_recording, bot_recording_filename,
                   is_in_meeting, recording_started, check_count, opened,
                   cleanups>>

\* detect_disconnection() is called on the page shown
Detect ==
    /\ disconnected = {}
    /\ disconnected' = {detect_disconnection(current_page)}
    /\ UNCHANGED <<recVars, thrVars, now, joinStart, stack, ret, fsVars,
                   device_info, stream_format, current_page, histVars,
                   ctlVars, joinVars>>

\* ------------------------------------- AnonymousGoogleMeetBot, the session
\* Every step of the controller leaves the recorder, the capture threads and
\* the files alone, unless it says otherwise.
BotFrame == UNCHANGED <<recVars, thrVars, joinStart, fsVars, envVars, histVars, sigVars>>

\* main(): bot.run() is called
MainRun ==
    /\ Top = "main"
    /\ stack' = Call("run_setup", "main_run")
    /\ UNCHANGED <<botVars, now, ret>>
    /\ BotFrame

\* run: setup_normal_driver succeeds
RunSetupOk ==
    /\ Top = "run_setup"
    /\ driver' = "open"
    /\ opened' = TRUE
    /\ stack' = Call("join_pre", "run_joined")
    /\ UNCHANGED <<enable_recording, bot_recording_filename, is_in_meeting,
                   status, recording_started, check_count, cleanups, now, ret>>
    /\ BotFrame

\* run: setup_normal_driver returns False, with uc.Chrome having failed or
\* with the driver open and a later statement having raised: return False
RunSetupFails ==
    /\ Top = "run_setup"
    /\ \E d \in {"none", "open"} :
          /\ driver' = d
          /\ opened' = (d = "open")
    /\ stack' = Goto("run_finally")
    /\ UNCHANGED <<enable_recording, bot_recording_filename, is_in_meeting,
                   status, recording_started, check_count, cleanups, now, ret>>
    /\ BotFrame

\* join_meeting: the URL variations (always True), media enforcement and the
\* name entry, then find_and_click_join_button clicks the button
JoinClicked ==
    /\ Top = "join_pre"
    /\ stack' = Goto("join_status")
    /\ UNCHANGED <<botVars, now, ret>>
    /\ BotFrame

\* join_meeting: no join button, both clicks fail, or a statement raises:
\* return False
JoinFails ==
    /\ Top = "join_pre"
    /\ stack' = Pop
    /\ ret' = RetBool(FALSE)
    /\ UNCHANGED <<botVars, now>>
    /\ BotFrame

\* JoinStatus taking "waiting" for "joined"
JoinStatus_AlsoWaiting ==
    /\ Top = "join_status"
    /\ \E page \in Pages : status' = check_meeting_status(page)
    /\ IF status' \in {"joined", "waiting"} /\ enable_recording
         THEN stack' = Call("botstart_entry", "join_ret")
         ELSE stack' = Goto("join_ret")
    /\ UNCHANGED <<driver, enable_recording, bot_recording_filename,
                   is_in_meeting, recording_started, check_count, opened,
                   cleanups, now, ret>>
    /\ BotFrame

\* join_meeting: status = check_meeting_status(); on "joined" with recording
\* enabled start_recording is called; return True
JoinStatus ==
    /\ Top = "join_status"
    /\ \E page \in Pages : status' = check_meeting_status(page)
    /\ IF status' = "joined" /\ enable_recording
         THEN stack' = Call("botstart_entry", "join_ret")
         ELSE stack' = Goto("join_ret")
    /\ UNCHANGED <<driver, enable_recording, bot_recording_filename,
                   is_in_meeting, recording_started, check_count, opened,
                   cleanups, now, ret>>
    /\ BotFrame

JoinReturn ==
    /\ Top = "join_ret"
    /\ stack' = Pop
    /\ ret' = RetBool(TRUE)
    /\ UNCHANGED <<botVars, now>>
    /\ BotFrame

\* run: if not self.join_meeting(): return False; else stay_in_meeting()
\* (recording_started = False, check_count = 0)
RunJoined ==
    /\ Top = "run_joined"
    /\ IF ret = RetBool(TRUE)
         THEN stack' = Call("stay_sleep", "run_stayed")
         ELSE stack' = Goto("run_finally")
    /\ recording_started' = FALSE
    /\ check_count' = 0
    /\ ret' = RetPending
    /\ UNCHANGED <<driver, enable_recording, bot_recording_filename,
                   is_in_meeting, status, opened, cleanups, now>>
    /\ BotFrame

\* run: stay_in_meeting has returned
RunStayed ==
    /\ Top = "run_stayed"
    /\ stack' = Goto("run_finally")
    /\ UNCHANGED <<botVars, now, ret>>
    /\ BotFrame

\* run: finally: self.cleanup()
RunFinally ==
    /\ \/ /\ Top = "run_finally"
          /\ stack' = Call("cleanup_entry", "run_return")
       \/ /\ Top = "run_finally_exc"
          /\ stack' = Call("cleanup_entry", "run_reraise")
    /\ UNCHANGED <<botVars, now, ret>>
    /\ BotFrame

RunReturn ==
    /\ Top = "run_return"
    /\ stack' = Pop
    /\ UNCHANGED <<botVars, now, ret>>
    /\ BotFrame

\* ----------------------------- AnonymousGoogleMeetBot.start_recording
\* BotStartEntry going on to the recorder whether or not recording is
\* enabled
BotStartEntry_Unguarded ==
    /\ Top = "botstart_entry"
    /\ stack' = Call("start_entry", "botstart_ret")
    /\ ret' = RetPending
    /\ now' = now + 3 * TicksPerSecond
    /\ UNCHANGED botVars
    /\ BotFrame

\* if not enable_recording or not recorder: return False; time.sleep(3);
\* success = self.recorder.start_recording()
BotStartEntry ==
    /\ Top = "botstart_entry"
    /\ IF ~enable_recording
         THEN /\ stack' = Pop
              /\ ret' = RetBool(FALSE)
              /\ now' = now
         ELSE /\ stack' = Call("start_entry", "botstart_ret")
              /\ ret' = RetPending
              /\ now' = now + 3 * TicksPerSecond
    /\ UNCHANGED botVars
    /\ BotFrame

\* if success: is_in_meeting = True; return success (no caller uses the
\* value returned)
BotStartReturn ==
    /\ Top = "botstart_ret"
    /\ is_in_meeting' = (is_in_meeting \/ ret = RetBool(TRUE))
    /\ stack' = Pop
    /\ ret' = RetPending
    /\ UNCHANGED <<driver, enable_recording, bot_recording_filename, status,
                   recording_started, check_count, opened, cleanups, now>>
    /\ BotFrame

\* ------------------------------ AnonymousGoogleMeetBot.stop_recording
\* if not enable_recording or not recorder: return None;
\* filename = self.recorder.stop_recording(reason)
BotStopEntry ==
    /\ Top = "botstop_entry"
    /\ IF ~enable_recording
         THEN /\ stack' = Pop
              /\ ret' = RetNone
         ELSE /\ stack' = Call("stop_entry", "botstop_ret")
              /\ ret' = RetPending
    /\ UNCHANGED <<botVars, now>>
    /\ BotFrame

\* if filename: self.recording_filename = filename; is_in_meeting = False;
\* return filename (no caller uses the value returned)
BotStopReturn ==
    /\ Top = "botstop_ret"
    /\ bot_recording_filename' = IF ret.k = "path" THEN ret.v
                                 ELSE bot_recording_filename
    /\ is_in_meeting' = FALSE
    /\ stack' = Pop
    /\ ret' = RetPending
    /\ UNCHANGED <<driver, enable_recording, status, recording_started,
                   check_count, opened, cleanups, now>>
    /\ BotFrame

\* --------------------------------- a caller of the bot's two methods
\* Code that has constructed the bot calls bot.start_recording() or
\* bot.stop_recording() itself, and does not call bot.run().  The calls of
\* start_recording, which sleeps 3 s when recording is enabled, are followed
\* while the clock is below MaxTime.
CallerStart ==
    /\ Top = "caller"
    /\ now < MaxTime
    /\ stack' = Call("botstart_entry", "caller")
    /\ ret' = RetPending
    /\ UNCHANGED <<botVars, now>>
    /\ BotFrame

CallerStop ==
    /\ Top = "caller"
    /\ stack' = Call("botstop_entry", "caller")
    /\ ret' = RetPending
    /\ UNCHANGED <<botVars, now>>
    /\ BotFrame

\* ------------------------------ AnonymousGoogleMeetBot.stay_in_meeting
\* while True: time.sleep(30); check_count += 1
StaySleepUpTo(n) ==
    /\ Top = "stay_sleep"
    /\ check_count < n
    /\ check_count' = check_count + 1
    /\ now' = now + 30 * TicksPerSecond
    /\ stack' = Goto("stay_detect")
    /\ UNCHANGED <<driver, enable_recording, bot_recording_filename,
                   is_in_meeting, status, recording_started, opened,
                   cleanups, ret>>
    /\ BotFrame

StaySleep == StaySleepUpTo(MaxChecks)

\* if self.detect_disconnection(): if recording_started and enable_recording:
\* self.stop_recording("Disconnection detected"); break
StayDetectOn(page) ==
    /\ Top = "stay_detect"
    /\ IF detect_disconnection(page)
         THEN IF recording_started /\ enable_recording
                THEN stack' = Call("botstop_entry", "stay_disc")
                ELSE stack' = Goto("stay_break")
         ELSE stack' = Goto("stay_status")
    /\ UNCHANGED <<botVars, now, ret>>
    /\ BotFrame

\* The browser shows any of the pages when the detector looks at it.
StayDetect == \E page \in Pages : StayDetectOn(page)

\* The detector looks at the page that is shown throughout the iteration.
StayDetectShown == StayDetectOn(current_page)

\* StayStatus leaving the loop on "unknown" as on "ended"
StayStatus_BreakOnUnknown ==
    /\ Top = "stay_status"
    /\ \E page \in Pages : status' = check_meeting_status(page)
    /\ IF status' \in {"ended", "unknown"}
         THEN IF recording_started /\ enable_recording
                THEN stack' = Call("botstop_entry", "stay_ended")
                ELSE stack' = Goto("stay_break")
         ELSE IF status' = "joined" /\ ~recording_started /\ enable_recording
                THEN stack' = Call("botstart_entry", "stay_started")
                ELSE stack' = Goto("stay_report")
    /\ UNCHANGED <<driver, enable_recording, bot_recording_filename,
                   is_in_meeting, recording_started, check_count, opened,
                   cleanups, now, ret>>
    /\ BotFrame

\* status = self.check_meeting_status(): on "ended", if recording_started
\* and enable_recording: self.stop_recording("Meeting ended"), and break; on
\* "joined" with recording enabled and not recording_started call
\* start_recording
StayStatusOn(page) ==
    /\ Top = "stay_status"
    /\ status' = check_meeting_status(page)
    /\ IF status' = "ended"
         THEN IF recording_started /\ enable_recording
                THEN stack' = Call("botstop_entry", "stay_ended")
                ELSE stack' = Goto("stay_break")
         ELSE IF status' = "joined" /\ ~recording_started /\ enable_recording
                THEN stack' = Call("botstart_entry", "stay_started")
                ELSE stack' = Goto("stay_report")
    /\ UNCHANGED <<driver, enable_recording, bot_recording_filename,
                   is_in_meeting, recording_started, check_count, opened,
                   cleanups, now, ret>>
    /\ BotFrame

\* The browser shows any of the pages when the classifier looks at it.
StayStatus == \E page \in Pages : StayStatusOn(page)

\* The classifier looks at the page the detector has just looked at.
StayStatusShown == StayStatusOn(current_page)

\* self.start_recording() has returned: recording_started = True
StayStarted ==
    /\ Top = "stay_started"
    /\ recording_started' = TRUE
    /\ stack' = Goto("stay_report")
    /\ UNCHANGED <<driver, enable_recording, bot_recording_filename,
                   is_in_meeting, status, check_count, opened, cleanups, now,
                   ret>>
    /\ BotFrame

\* StayReport re-running the media enforcement in every iteration
StayReport_EveryIteration ==
    /\ Top = "stay_report"
    /\ \E toggled \in BOOLEAN :
          now' = now + (IF toggled THEN 3 ELSE 3 + 2 * 5 * 2) * TicksPerSecond
    /\ stack' = Goto("stay_sleep")
    /\ UNCHANGED <<botVars, ret>>
    /\ BotFrame

\* get_recording_status() is logged; if check_count % 5 == 0:
\* ensure_muted_and_camera_off(), which sleeps 3 s, tries each button up to
\* 5 times 2 s apart and keeps its errors to itself; next iteration
StayReport ==
    /\ Top = "stay_report"
    /\ IF check_count % MediaCheckEvery = 0
         THEN \E toggled \in BOOLEAN :
                 now' = now + (IF toggled THEN 3 ELSE 3 + 2 * 5 * 2) * TicksPerSecond
         ELSE now' = now
    /\ stack' = Goto("stay_sleep")
    /\ UNCHANGED <<botVars, ret>>
    /\ BotFrame

\* break: the try block is left
StayBreak ==
    /\ Top \in {"stay_break", "stay_disc", "stay_ended"}
    /\ stack' = Goto("stay_finally")
    /\ UNCHANGED <<botVars, now, ret>>
    /\ BotFrame

\* StayFinally stopping only a recording the loop knows it has started
StayFinally_OwnRecordingOnly ==
    /\ \/ /\ Top = "stay_finally"
          /\ IF enable_recording /\ recording_started /\ is_recording
               THEN stack' = Call("botstop_entry", "stay_return")
               ELSE stack' = Goto("stay_return")
       \/ /\ Top = "stay_finally_exc"
          /\ IF enable_recording /\ recording_started /\ is_recording
               THEN stack' = Call("botstop_entry", "stay_reraise")
               ELSE stack' = Goto("stay_reraise")
    /\ UNCHANGED <<botVars, now, ret>>
    /\ BotFrame

\* finally: if enable_recording and recorder and recorder.is_recording:
\* self.stop_recording("Bot shutdown")
StayFinally ==
    /\ \/ /\ Top = "stay_finally"
          /\ IF enable_recording /\ is_recording
               THEN stack' = Call("botstop_entry", "stay_return")
               ELSE stack' = Goto("stay_return")
       \/ /\ Top = "stay_finally_exc"
          /\ IF enable_recording /\ is_recording
               THEN stack' = Call("botstop_entry", "stay_reraise")
               ELSE stack' = Goto("stay_reraise")
    /\ UNCHANGED <<botVars, now, ret>>
    /\ BotFrame

StayReturn ==
    /\ Top = "stay_return"
    /\ stack' = Pop
    /\ UNCHANGED <<botVars, now, ret>>
    /\ BotFrame

\* --------------------------------------- AnonymousGoogleMeetBot.cleanup
\* if enable_recording and recorder: if recorder.is_recording:
\* self.stop_recording("Bot cleanup")
CleanupEntry_NoGuard ==
    /\ Top = "cleanup_entry"
    /\ IF enable_recording
         THEN stack' = Call("botstop_entry", "cleanup_rec")
         ELSE stack' = Goto("cleanup_quit")
    /\ UNCHANGED <<botVars, now, ret>>
    /\ BotFrame

CleanupEntry ==
    /\ Top = "cleanup_entry"
    /\ IF enable_recording
         THEN IF is_recording
                THEN stack' = Call("botstop_entry", "cleanup_rec")
                ELSE stack' = Goto("cleanup_rec")
         ELSE stack' = Goto("cleanup_quit")
    /\ UNCHANGED <<botVars, now, ret>>
    /\ BotFrame

\* self.recorder.cleanup(): AudioRecorder.cleanup: if self.is_recording:
\* self.stop_recording("Cleanup called"); then audio.terminate(), errors
\* tolerated
CleanupRecorder ==
    /\ Top = "cleanup_rec"
    /\ IF is_recording
         THEN stack' = Call("stop_entry", "cleanup_quit")
         ELSE stack' = Goto("cleanup_quit")
    /\ UNCHANGED <<botVars, now, ret>>
    /\ BotFrame

\* CleanupQuit with driver.quit() outside its try block: an error of the
\* driver leaves cleanup as an exception
CleanupQuit_NoTry ==
    /\ Top = "cleanup_quit"
    /\ \E quitRaises \in BOOLEAN :
          IF driver # "none" /\ quitRaises
            THEN /\ exc' = "Exception"
                 /\ UNCHANGED <<stack, driver, cleanups, nsignals, sigBuffered>>
            ELSE /\ driver' = IF driver # "none" THEN "quit" ELSE driver
                 /\ cleanups' = cleanups + 1
                 /\ stack' = Pop
                 /\ UNCHANGED sigVars
    /\ UNCHANGED <<enable_recording, bot_recording_filename, is_in_meeting,
                   status, recording_started, check_count, opened, now, ret>>
    /\ UNCHANGED <<recVars, thrVars, joinStart, fsVars, envVars, histVars>>

\* if self.driver: try: self.driver.quit() except Exception: warning (the
\* error is tolerated, and self.driver stays set); the recording summary is
\* logged, its file probes inside a try; return
CleanupQuit ==
    /\ Top = "cleanup_quit"
    /\ \E quitRaises \in BOOLEAN :
          /\ driver' = IF driver # "none" THEN "quit" ELSE driver
          /\ cleanups' = cleanups + 1
          /\ stack' = Pop
    /\ UNCHANGED <<enable_recording, bot_recording_filename, is_in_meeting,
                   status, recording_started, check_count, opened, now, ret>>
    /\ BotFrame

\* ------------------------------------------ signals, exceptions, exit
\* The positions inside AudioRecorder.stop_recording's try block.
StopFrames == {"stop_wait", "stop_save"}
\* The positions inside stay_in_meeting's and run's try blocks.
StayTryFrames == {"stay_sleep", "stay_detect", "stay_status", "stay_started",
                  "stay_report", "stay_break", "stay_disc", "stay_ended"}
RunTryFrames == {"run_setup", "run_joined", "run_stayed"}

Stopping == \E i \in 1..Len(stack) : stack[i] \in StopFrames

\* SIGINT or SIGTERM is delivered between two steps of the controlling
\* thread: _signal_handler runs on top of the interrupted code and calls
\* self.cleanup()
Signal ==
    /\ stack # <<>>
    /\ exc = "none"
    /\ nsignals < MaxSignals
    /\ nsignals' = nsignals + 1
    /\ stack' = stack \o <<"sig_exit", "cleanup_entry">>
    /\ sigBuffered' = (sigBuffered \/ (frames # <<>> /\ (is_recording \/ Stopping)))
    /\ UNCHANGED <<recVars, thrVars, now, joinStart, ret, fsVars, envVars, histVars,
                   botVars, exc>>

\* _signal_handler: sys.exit(0) raises SystemExit
SignalExit ==
    /\ Top = "sig_exit"
    /\ exc' = "SystemExit"
    /\ stack' = Pop
    /\ UNCHANGED <<recVars, thrVars, now, joinStart, ret, fsVars, envVars, histVars,
                   botVars, nsignals, sigBuffered>>

\* SystemExit leaves a frame that has no finally block to run (no handler of
\* the code catches it: they catch Exception)
UnwindPlain ==
    /\ exc = "SystemExit"
    /\ Len(stack) > 1
    /\ stack[Len(stack)] \notin StopFrames \cup StayTryFrames \cup RunTryFrames
    /\ stack' = Pop
    /\ UNCHANGED <<recVars, thrVars, now, joinStart, ret, fsVars, envVars, histVars,
                   ctlVars>>

\* SystemExit leaves stop_recording: its finally block clears the buffer,
\* the frame count and the start time
UnwindStop ==
    /\ exc = "SystemExit"
    /\ stack[Len(stack)] \in StopFrames
    /\ StopFinally
    /\ stack' = Pop
    /\ UNCHANGED <<is_recording, recording_filename, audio_stream,
                   audio_thread, thrVars, now, ret, fsVars, envVars, histVars, ctlVars>>

\* SystemExit reaches the try block of stay_in_meeting or of run: the
\* finally block runs with the exception pending
UnwindToFinally ==
    /\ exc = "SystemExit"
    /\ \/ /\ stack[Len(stack)] \in StayTryFrames
          /\ stack' = Goto("stay_finally_exc")
       \/ /\ stack[Len(stack)] \in RunTryFrames
          /\ stack' = Goto("run_finally_exc")
    /\ exc' = "none"
    /\ UNCHANGED <<recVars, thrVars, now, joinStart, ret, fsVars, envVars, histVars,
                   botVars, nsignals, sigBuffered>>

\* the finally block is done: the pending SystemExit propagates again
Reraise ==
    /\ Top \in {"stay_reraise", "run_reraise"}
    /\ exc' = "SystemExit"
    /\ stack' = Pop
    /\ UNCHANGED <<recVars, thrVars, now, joinStart, ret, fsVars, envVars, histVars,
                   botVars, nsignals, sigBuffered>>

\* run has returned, or SystemExit has reached the top of the main module:
\* the interpreter runs the atexit hook, self.cleanup()
AtExit ==
    /\ \/ /\ Top = "main_run"
          /\ exc' = exc
       \/ /\ exc = "SystemExit"
          /\ stack \in {<<"main">>, <<"main_run">>}
          /\ exc' = "none"
    /\ stack' = <<"main_exit", "cleanup_entry">>
    /\ UNCHANGED <<recVars, thrVars, now, joinStart, ret, fsVars, envVars, histVars,
                   botVars, nsignals, sigBuffered>>

\* the process exits (and its daemon threads with it)
ProcessExit ==
    /\ \/ /\ Top = "main_exit"
          /\ exc' = exc
       \/ /\ exc = "SystemExit"
          /\ stack = <<"main_exit">>
          /\ exc' = "none"
    /\ stack' = <<>>
    /\ UNCHANGED <<recVars, thrVars, now, joinStart, ret, fsVars, envVars, histVars,
                   botVars, nsignals, sigBuffered>>

\* ------------------------------------- AudioRecorder._log_recording_stats
\* Blocks are strings of bytes, two to a sample (paInt16, little-endian).
\* Samples at and around the values that matter: silence, the smallest
\* sounds, the two sides of 1% of full scale, and full scale.
SampleBytes ==
    {<<0, 0>>, <<1, 0>>, <<255, 255>>, <<71, 1>>, <<72, 1>>, <<185, 254>>,
     <<184, 254>>, <<255, 127>>, <<0, 128>>}

RECURSIVE BlocksOf(_)
\* the blocks of n samples
BlocksOf(n) ==
    IF n = 0 THEN {<<>>}
    ELSE {b \o smp : b \in BlocksOf(n - 1), smp \in SampleBytes}

\* struct.unpack('<h'): a little-endian signed 16-bit sample
Int16(lo, hi) ==
    LET u == lo + 256 * hi IN IF u >= 32768 THEN u - 65536 ELSE u

\* struct.unpack(f'<{len(last_frame)//2}h', last_frame)
unpack(last_frame) ==
    [k \in 1..(Len(last_frame) \div 2) |->
        Int16(last_frame[2 * k - 1], last_frame[2 * k])]

Abs(x) == IF x < 0 THEN -x ELSE x

RECURSIVE MaxAbs(_)
\* max(abs(s) for s in samples)
MaxAbs(samples) ==
    IF Len(samples) = 1 THEN Abs(samples[1])
    ELSE Max(Abs(samples[1]), MaxAbs(Tail(samples)))

RECURSIVE max_amplitude_Signed(_)
\* max_amplitude taken over the samples with their signs
max_amplitude_Signed(samples) ==
    IF samples = <<>> THEN 0
    ELSE IF Len(samples) = 1 THEN samples[1]
    ELSE Max(samples[1], max_amplitude_Signed(Tail(samples)))

\* max_amplitude = max(abs(s) for s in samples) if samples else 0
max_amplitude(samples) ==
    IF samples # <<>> THEN MaxAbs(samples) ELSE 0

\* FullScale: the 32768 of amplitude_percent = (max_amplitude / 32768) * 100.
\* The percentage is kept as the fraction num / den.
FullScale == 32768
amplitude_percent(samples) ==
    [num |-> max_amplitude(samples) * 100, den |-> FullScale]

\* _log_recording_stats is not running
LevelIdle ==
    [pc |-> "idle", started |-> FALSE, total |-> 0, frames |-> <<>>,
     percent |-> [num |-> -1, den |-> 1], log |-> {}]

\* _log_recording_stats: with a start time, and with blocks counted and the
\* buffer not empty, the last block is unpacked, its level logged and the
\* warning given below 1%; an odd block makes unpack raise, which is logged
\* at debug level; with no block counted the other warning is given.
log_recording_stats ==
    /\ level.pc = "call"
    /\ level' =
         IF ~level.started
           THEN [level EXCEPT !.pc = "done"]
         ELSE IF level.total = 0
           THEN [level EXCEPT !.pc = "done",
                              !.log = {"NO audio data captured"}]
         ELSE IF level.frames = <<>>
           THEN [level EXCEPT !.pc = "done"]
         ELSE LET last_frame == level.frames[Len(level.frames)]
                  percent == amplitude_percent(unpack(last_frame))
              IN  IF Len(last_frame) % 2 # 0
                    THEN [level EXCEPT !.pc = "done",
                                       !.log = {"Could not analyze audio level"}]
                    ELSE [level EXCEPT
                            !.pc = "done",
                            !.percent = percent,
                            !.log = {"Current audio level"} \cup
                                    IF percent.num < 1 * percent.den
                                      THEN {"Audio levels very low"}
                                      ELSE {}]
    /\ UNCHANGED <<recVars, thrVars, now, joinStart, stack, ret, fsVars,
                   device_info, stream_format, obsVars, nav, entry, media,
                   histVars, ctlVars>>

\* ----------------------- ensure_muted_and_camera_off, _toggle_media_button
\* Strings that are searched are sequences of characters.
\* the label of a control of a device that is on begins "Turn off "
TurnOff ==
    <<"T", "u", "r", "n", " ", "o", "f", "f", " ">>
\* and of one that is off "Turn on "
TurnOn ==
    <<"T", "u", "r", "n", " ", "o", "n", " ">>
Microphone ==
    <<"m", "i", "c", "r", "o", "p", "h", "o", "n", "e">>
Camera ==
    <<"c", "a", "m", "e", "r", "a">>
TurnOffLower ==
    <<"t", "u", "r", "n", " ", "o", "f", "f">>
Off ==
    <<"o", "f", "f">>
On ==
    <<"o", "n">>
Mute ==
    <<"m", "u", "t", "e">>
Muted ==
    <<"m", "u", "t", "e", "d">>

\* str.lower(), and the ASCII case folding of a CSS attribute selector
\* with the i flag, over the letters that occur
LowerChar(c) ==
    CASE c = "T" -> "t"
      [] c = "M" -> "m"
      [] c = "C" -> "c"
      [] OTHER -> c
Lower(str) == [i \in 1..Len(str) |-> LowerChar(str[i])]

\* part in str
In(part, str) ==
    \E i \in 0..(Len(str) - Len(part)) :
        SubSeq(str, i + 1, i + Len(part)) = part

MediaDevices == {"microphone", "camera"}
DeviceName(d) == IF d = "microphone" THEN Microphone ELSE Camera

\* A control of a device in the page: its tag, role and jsname, whether it
\* is displayed and enabled, and what a click on it does: "native" (click()
\* goes through), "script" (click() raises, the scripted click goes
\* through), "fails" (both raise).  "none" for tag: the page has no control
\* of the device.
Control(t, j, dis, en, c) ==
    [tag |-> t, role |-> IF t = "div" THEN "button" ELSE "",
     jsname |-> j, displayed |-> dis, enabled |-> en, click |-> c]
NoControl == Control("none", "", FALSE, FALSE, "fails")
ControlsOf(d) ==
    {NoControl} \cup
    {Control(t[1], t[2], v[1], v[2], c) :
        t \in {<<"button", IF d = "microphone" THEN "BOHaEe" ELSE "I5Fjmd">>,
               <<"button", "">>, <<"div", "">>},
        v \in {<<TRUE, TRUE>>, <<FALSE, TRUE>>, <<TRUE, FALSE>>},
        c \in {"native", "script", "fails"}}

\* The aria-label of the control of device d, which names what a click
\* does: it turns the device off when it is on, and on when it is off.
AriaLabel(d, on) == (IF on[d] THEN TurnOff ELSE TurnOn) \o DeviceName(d)

\* A CSS selector: the tag, the parts the aria-label must contain as they
\* are and with the i flag, the jsname and the role asked for ("" for none).
Selector(t, parts, iparts, j, r) ==
    [tag |-> t, contains |-> parts, icontains |-> iparts, jsname |-> j,
     role |-> r]

\* mic_selectors and cam_selectors
mic_selectors ==
    <<Selector("button", {TurnOff \o Microphone}, {}, "", ""),
      Selector("button", {}, {Microphone, On}, "", ""),
      Selector("button", {}, {Mute}, "", ""),
      Selector("button", {}, {}, "BOHaEe", ""),
      Selector("div", {}, {Microphone}, "", "button")>>
cam_selectors ==
    <<Selector("button", {TurnOff \o Camera}, {}, "", ""),
      Selector("button", {}, {Camera, On}, "", ""),
      Selector("button", {}, {}, "I5Fjmd", ""),
      Selector("div", {}, {Camera}, "", "button")>>
SelectorsOf(d) == IF d = "microphone" THEN mic_selectors ELSE cam_selectors

\* The control of device d is among find_elements(By.CSS_SELECTOR, selector)
Matches(d, selector, m) ==
    LET elem == m.dom[d]
        label == AriaLabel(d, m.on)
    IN  /\ elem.tag = selector.tag
        /\ \A part \in selector.contains : In(part, label)
        /\ \A part \in selector.icontains : In(Lower(part), Lower(label))
        /\ selector.jsname # "" => elem.jsname = selector.jsname
        /\ selector.role # "" => elem.role = selector.role

\* needs_toggle = ("turn off" in aria_label and device_name in aria_label)
\*   or (device_name in aria_label and "off" not in aria_label
\*       and desired_state == "off")
needs_toggle(aria_label, device_name, desired_state) ==
    \/ In(TurnOffLower, aria_label) /\ In(device_name, aria_label)
    \/ /\ In(device_name, aria_label)
       /\ ~In(Off, aria_label)
       /\ desired_state = Off

\* already_correct = desired_state in aria_label
already_correct(aria_label, desired_state) == In(desired_state, aria_label)

\* while not toggled and attempts < 5
MaxAttempts == 5

\* One call of _toggle_media_button: its locals, whether the device was on
\* when it was called, the clicks that went through, and that an element
\* was found that could be acted on.
CallStart(wasOn) ==
    [attempts |-> 0, toggled |-> FALSE, on0 |-> wasOn, clicks |-> 0,
     found |-> FALSE, done |-> FALSE]

\* The media step has not run.  dev is the device of the call in progress,
\* sel the next selector of its for loop, on the state of the devices, dom
\* their controls, call the calls made, warnings the warnings logged.
MediaIdle ==
    [dev |-> "none", sel |-> 0,
     on |-> [d \in MediaDevices |-> TRUE],
     dom |-> [d \in MediaDevices |-> NoControl],
     call |-> [d \in MediaDevices |-> CallStart(FALSE)],
     warnings |-> {}]

\* A step of the media enforcement works on the browser alone.
MediaFrame ==
    UNCHANGED <<recVars, thrVars, joinStart, fsVars, device_info,
                stream_format, obsVars, nav, entry, level, histVars, sigVars,
                botVars, ret>>

\* join_meeting: self.ensure_muted_and_camera_off()
JoinMedia ==
    /\ Top = "join_media"
    /\ stack' = Call("ensure_entry", "join_name")
    /\ UNCHANGED <<media, now>>
    /\ MediaFrame

\* ensure_muted_and_camera_off: time.sleep(3);
\* self._toggle_media_button(mic_selectors, "microphone", "off")
EnsureMicrophone ==
    /\ Top = "ensure_entry"
    /\ now' = now + 3 * TicksPerSecond
    /\ stack' = Call("toggle_while", "ensure_camera")
    /\ media' = [media EXCEPT
                   !.dev = "microphone",
                   !.call["microphone"] = CallStart(media.on["microphone"])]
    /\ MediaFrame

\* self._toggle_media_button(cam_selectors, "camera", "off")
EnsureCamera ==
    /\ Top = "ensure_camera"
    /\ stack' = Call("toggle_while", "ensure_verify")
    /\ media' = [media EXCEPT
                   !.dev = "camera",
                   !.call["camera"] = CallStart(media.on["camera"])]
    /\ UNCHANGED now
    /\ MediaFrame

\* _toggle_media_button: while not toggled and attempts < 5: attempts += 1;
\* when the condition fails the function returns (it logs nothing)
ToggleWhile ==
    /\ Top = "toggle_while"
    /\ LET c == media.call[media.dev]
       IN  IF ~c.toggled /\ c.attempts < MaxAttempts
             THEN /\ media' = [media EXCEPT
                                 !.call[media.dev].attempts = @ + 1,
                                 !.sel = 1]
                  /\ stack' = Goto("toggle_for")
             ELSE /\ media' = [media EXCEPT !.call[media.dev].done = TRUE,
                                            !.sel = 0]
                  /\ stack' = Pop
    /\ UNCHANGED now
    /\ MediaFrame

\* _toggle_media_button: one pass of the for loop over the selectors.
\* find_elements or a test of the element raises, or nothing that is
\* displayed and enabled is found: the next selector.  Otherwise the label
\* is classified: on needs_toggle the element is clicked (by script if
\* click() raises; if that raises too, the next selector), one second is
\* slept and toggled is set; on already_correct toggled is set.  The break
\* that follows leaves the loop over the elements: the for loop over the
\* selectors goes on with the next selector.
ToggleSelector ==
    /\ Top = "toggle_for"
    /\ media.sel <= Len(SelectorsOf(media.dev))
    /\ LET d == media.dev
           selector == SelectorsOf(d)[media.sel]
           elem == media.dom[d]
           aria_label == Lower(AriaLabel(d, media.on))
           next == [media EXCEPT !.sel = @ + 1]
       IN  \/ /\ media' = next
              /\ UNCHANGED now
           \/ /\ Matches(d, selector, media)
              /\ elem.displayed /\ elem.enabled
              /\ IF needs_toggle(aria_label, DeviceName(d), Off)
                   THEN IF elem.click = "fails"
                          THEN /\ media' = [next EXCEPT !.call[d].found = TRUE]
                               /\ UNCHANGED now
                          ELSE /\ media' = [next EXCEPT
                                              !.on[d] = ~@,
                                              !.call[d].found = TRUE,
                                              !.call[d].clicks = @ + 1,
                                              !.call[d].toggled = TRUE]
                               /\ now' = now + 1 * TicksPerSecond
                   ELSE IF already_correct(aria_label, Off)
                          THEN /\ media' = [next EXCEPT
                                              !.call[d].found = TRUE,
                                              !.call[d].toggled = TRUE]
                               /\ UNCHANGED now
                          ELSE /\ media' = next
                               /\ UNCHANGED now
    /\ UNCHANGED stack
    /\ MediaFrame

\* _toggle_media_button: the selectors are through: if toggled: break (the
\* function returns); else time.sleep(2) and the next round
ToggleRoundEnd ==
    /\ Top = "toggle_for"
    /\ media.sel > Len(SelectorsOf(media.dev))
    /\ IF media.call[media.dev].toggled
         THEN /\ media' = [media EXCEPT !.call[media.dev].done = TRUE,
                                        !.sel = 0]
              /\ stack' = Pop
              /\ UNCHANGED now
         ELSE /\ stack' = Goto("toggle_while")
              /\ now' = now + 2 * TicksPerSecond
              /\ UNCHANGED media
    /\ MediaFrame

\* verify_media_state: for the first displayed button whose label holds
\* "microphone", "confirmed" is logged if the label holds "off" or "muted",
\* else a warning that the state is unclear; likewise for the camera with
\* "off"; then ensure_muted_and_camera_off returns.  find_elements may
\* raise, which is logged as a warning.
EnsureVerify ==
    /\ Top = "ensure_verify"
    /\ LET unclear(d) ==
              LET elem == media.dom[d]
                  aria_label == Lower(AriaLabel(d, media.on))
              IN  /\ elem.tag = "button"
                  /\ elem.displayed
                  /\ ~In(Off, aria_label)
                  /\ d = "microphone" => ~In(Muted, aria_label)
       IN  \/ media' = [media EXCEPT
                          !.dev = "none",
                          !.warnings = @ \cup
                             {"state unclear" : d \in {e \in MediaDevices :
                                                          unclear(e)}}]
           \/ media' = [media EXCEPT
                          !.dev = "none",
                          !.warnings = @ \cup {"Could not verify media state"}]
    /\ stack' = Pop
    /\ UNCHANGED now
    /\ MediaFrame

\* ------------------------------------------ join_meeting, step by step
\* A step of the join workflow works on the browser alone.
JoinFrame ==
    UNCHANGED <<recVars, thrVars, joinStart, fsVars, device_info,
                stream_format, obsVars, histVars, sigVars, botVars>>

\* url_variations: the meeting link and six rewritings of it
NumVariations == 7

\* restriction_phrases
RestrictionPhrases ==
    {"can't create a meeting", "contact your system administrator",
     "you can't create meetings", "administrator for more information",
     "your organization doesn't allow"}

\* The page sources a variation may show, as the phrases found in them.
PageSources ==
    {{}, {"ready to join?"},
     {"can't create a meeting"},
     {"your organization doesn't allow", "ready to join?"},
     {"contact your system administrator", "administrator for more information"}}

\* any(phrase in page_source for phrase in restriction_phrases)
has_restriction(page_source) == page_source \cap RestrictionPhrases # {}

\* try_meeting_url_variations has not run: no variation tried or loaded
NavStart ==
    [i |-> 0, tried |-> <<>>, loaded |-> 0, restricted |-> {}, accepted |-> 0,
     warned |-> FALSE]

\* join_meeting: if not self.try_meeting_url_variations()
JoinEnter ==
    /\ Top = "join_pre"
    /\ stack' = Call("url_loop", "join_url_ret")
    /\ nav' = NavStart
    /\ UNCHANGED <<now, ret, entry, level, media>>
    /\ JoinFrame

\* try_meeting_url_variations: one pass of the for loop.  driver.get(url)
\* raises (caught, continue), or loads the variation; then page_source
\* raises (caught, continue) or is searched for the restriction phrases:
\* with none found the function returns True, else the loop goes on.
UrlTry ==
    /\ Top = "url_loop"
    /\ nav.i < NumVariations
    /\ LET i == nav.i + 1
           tried == [nav EXCEPT !.i = i, !.tried = Append(@, i)]
       IN  \/ /\ nav' = tried
              /\ UNCHANGED <<stack, ret, now>>
           \/ /\ nav' = [tried EXCEPT !.loaded = i]
              /\ now' = now + 4 * TicksPerSecond
              /\ UNCHANGED <<stack, ret>>
           \/ \E page_source \in PageSources :
                 /\ now' = now + 4 * TicksPerSecond
                 /\ IF ~has_restriction(page_source)
                      THEN /\ nav' = [tried EXCEPT !.loaded = i,
                                                   !.accepted = i]
                           /\ stack' = Pop
                           /\ ret' = RetBool(TRUE)
                      ELSE /\ nav' = [tried EXCEPT
                                        !.loaded = i,
                                        !.restricted = @ \cup {i}]
                           /\ UNCHANGED <<stack, ret>>
    /\ UNCHANGED <<entry, level, media>>
    /\ JoinFrame

\* UrlExhausted failing closed: False when no variation was accepted
UrlExhausted_FailClosed ==
    /\ Top = "url_loop"
    /\ nav.i = NumVariations
    /\ nav' = [nav EXCEPT !.warned = TRUE]
    /\ stack' = Pop
    /\ ret' = RetBool(FALSE)
    /\ UNCHANGED <<now, entry, level, media>>
    /\ JoinFrame

\* try_meeting_url_variations: the loop is exhausted:
\* logger.warning("All URL variations showed restrictions, continuing
\* anyway..."); return True
UrlExhausted ==
    /\ Top = "url_loop"
    /\ nav.i = NumVariations
    /\ nav' = [nav EXCEPT !.warned = TRUE]
    /\ stack' = Pop
    /\ ret' = RetBool(TRUE)
    /\ UNCHANGED <<now, entry, level, media>>
    /\ JoinFrame

\* join_meeting: if not ...: return False; else
\* self.ensure_muted_and_camera_off()
JoinUrlChecked ==
    /\ Top = "join_url_ret"
    /\ IF ret = RetBool(TRUE)
         THEN /\ stack' = Goto("join_media")
              /\ ret' = RetPending
         ELSE /\ stack' = Pop
              /\ ret' = RetBool(FALSE)
    /\ UNCHANGED <<now, nav, entry, level, media>>
    /\ JoinFrame

\* name_selectors and join_selectors
NumNameSelectors == 4
NumJoinSelectors == 6

\* enter_name and find_and_click_join_button have not run.  sel is the
\* selector last waited for, misses the selectors that timed out; name is
\* how enter_name ended, button the selector that found the join button
\* (0 for None), clicked that a click on it went through, failed that
\* join_meeting returned False.
EntryStart ==
    [sel |-> 0, misses |-> 0, name |-> "none", button |-> 0, bmisses |-> 0,
     clicked |-> FALSE, failed |-> FALSE]

\* join_meeting: self.enter_name()
JoinName ==
    /\ Top = "join_name"
    /\ stack' = Call("name_loop", "join_name_ret")
    /\ entry' = EntryStart
    /\ UNCHANGED <<now, ret, nav, level, media>>
    /\ JoinFrame

\* enter_name: one pass of the for loop.  The wait for a clickable input
\* times out (continue); or gives an input that is not displayed (next
\* pass); or gives one that is cleared and typed into (return True); or a
\* statement raises something else (outer except: return True).
NameTry ==
    /\ Top = "name_loop"
    /\ entry.sel < NumNameSelectors
    /\ \/ /\ entry' = [entry EXCEPT !.sel = @ + 1, !.misses = @ + 1]
          /\ UNCHANGED <<stack, ret, now>>
       \/ /\ entry' = [entry EXCEPT !.sel = @ + 1]
          /\ UNCHANGED <<stack, ret, now>>
       \/ /\ entry' = [entry EXCEPT !.sel = @ + 1, !.name = "typed"]
          /\ now' = now + 1 * TicksPerSecond
          /\ stack' = Pop
          /\ ret' = RetBool(TRUE)
       \/ /\ entry' = [entry EXCEPT !.sel = @ + 1, !.name = "error"]
          /\ stack' = Pop
          /\ ret' = RetBool(TRUE)
          /\ UNCHANGED now
    /\ UNCHANGED <<nav, level, media>>
    /\ JoinFrame

\* enter_name: no selector gave a displayed input:
\* logger.info("Name input not found or not required"); return True
NameNotFound ==
    /\ Top = "name_loop"
    /\ entry.sel = NumNameSelectors
    /\ entry' = [entry EXCEPT
                   !.name = IF entry.misses = NumNameSelectors
                              THEN "absent" ELSE "hidden"]
    /\ stack' = Pop
    /\ ret' = RetBool(TRUE)
    /\ UNCHANGED <<now, nav, level, media>>
    /\ JoinFrame

\* join_meeting: the result of enter_name is not looked at;
\* if not self.find_and_click_join_button()
JoinNamed ==
    /\ Top = "join_name_ret"
    /\ stack' = Call("button_loop", "join_button_ret")
    /\ entry' = [entry EXCEPT !.sel = 0]
    /\ ret' = RetPending
    /\ UNCHANGED <<now, nav, level, media>>
    /\ JoinFrame

\* find_and_click_join_button: one pass of the for loop.  The wait times
\* out (continue); or gives an element that is not displayed (next pass);
\* or gives the join button (break); or raises something else, which
\* leaves the function for the except clause of join_meeting.
ButtonTry ==
    /\ Top = "button_loop"
    /\ entry.sel < NumJoinSelectors
    /\ entry.button = 0
    /\ \/ /\ entry' = [entry EXCEPT !.sel = @ + 1, !.bmisses = @ + 1]
          /\ UNCHANGED stack
       \/ /\ entry' = [entry EXCEPT !.sel = @ + 1]
          /\ UNCHANGED stack
       \/ /\ entry' = [entry EXCEPT !.sel = @ + 1, !.button = entry.sel + 1]
          /\ stack' = Goto("button_click")
       \/ /\ entry' = [entry EXCEPT !.sel = @ + 1]
          /\ stack' = Append(SubSeq(stack, 1, Len(stack) - 2), "join_except")
    /\ UNCHANGED <<now, ret, nav, level, media>>
    /\ JoinFrame

\* ButtonMissing going on without a join button
ButtonMissing_Tolerated ==
    /\ Top = "button_loop"
    /\ entry.sel = NumJoinSelectors
    /\ entry.button = 0
    /\ stack' = Pop
    /\ ret' = RetBool(TRUE)
    /\ UNCHANGED <<now, nav, entry, level, media>>
    /\ JoinFrame

\* find_and_click_join_button: if not join_button:
\* take_screenshot("no_join_button"); return False
ButtonMissing ==
    /\ Top = "button_loop"
    /\ entry.sel = NumJoinSelectors
    /\ entry.button = 0
    /\ stack' = Pop
    /\ ret' = RetBool(FALSE)
    /\ UNCHANGED <<now, nav, entry, level, media>>
    /\ JoinFrame

\* find_and_click_join_button: scrollIntoView, sleep(1), click(), sleep(5),
\* return True; when the click raises it is made by script (sleep(5),
\* return True), and when that raises too: return False
ButtonClick ==
    /\ Top = "button_click"
    /\ \E native, script \in BOOLEAN :
          IF native \/ script
            THEN /\ entry' = [entry EXCEPT !.clicked = TRUE]
                 /\ now' = now + 6 * TicksPerSecond
                 /\ ret' = RetBool(TRUE)
            ELSE /\ now' = now + 1 * TicksPerSecond
                 /\ ret' = RetBool(FALSE)
                 /\ UNCHANGED entry
    /\ stack' = Pop
    /\ UNCHANGED <<nav, level, media>>
    /\ JoinFrame

\* join_meeting: if not self.find_and_click_join_button(): return False;
\* else status = self.check_meeting_status().  Of a join that goes on only
\* the click is remembered.
JoinButtonChecked ==
    /\ Top = "join_button_ret"
    /\ IF ret = RetBool(TRUE)
         THEN /\ stack' = Goto("join_status")
              /\ ret' = RetPending
              /\ entry' = [EntryStart EXCEPT !.clicked = entry.clicked]
         ELSE /\ stack' = Pop
              /\ ret' = RetBool(FALSE)
              /\ entry' = [entry EXCEPT !.failed = TRUE]
    /\ UNCHANGED <<now, nav, level, media>>
    /\ JoinFrame

\* join_meeting: except Exception: take_screenshot("join_error");
\* return False
JoinExcept ==
    /\ Top = "join_except"
    /\ stack' = Pop
    /\ ret' = RetBool(FALSE)
    /\ entry' = [entry EXCEPT !.failed = TRUE]
    /\ UNCHANGED <<now, nav, level, media>>
    /\ JoinFrame

\* --------------------------------------------------------- specifications
\* AudioRecorder.__init__, and a browser that has not been used
InitFields ==
    /\ is_recording = FALSE
    /\ frames = <<>>
    /\ total_frames_recorded = 0
    /\ recording_start_time = -1
    /\ recording_filename = -1
    /\ audio_stream = 0
    /\ audio_thread = 0
    /\ tpc = [t \in Threads |-> "unstarted"]
    /\ now = 0
    /\ joinStart = -1
    /\ ret = RetPending
    /\ writeLog = <<>>
    /\ sessFile = <<>>
    /\ drains = 0
    /\ stream_format = NoFormat
    /\ disconnected = {}
    /\ nav = NavStart
    /\ entry = EntryStart

\* No capture thread is in _log_recording_stats, and the media settings
\* have not been gone through.
InitRecorder ==
    /\ InitFields
    /\ level = LevelIdle
    /\ media = MediaIdle

\* AnonymousGoogleMeetBot.__init__
InitBotFields ==
    /\ driver = "none"
    /\ bot_recording_filename = -1
    /\ is_in_meeting = FALSE
    /\ status = "none"
    /\ recording_started = FALSE
    /\ check_count = 0
    /\ exc = "none"
    /\ nsignals = 0
    /\ opened = FALSE
    /\ cleanups = 0
    /\ sigBuffered = FALSE

Init ==
    /\ InitRecorder
    /\ current_page = PageOf(MeetUrl, {}, {}, FALSE)
    /\ device_info = Device(2, 44100)
    /\ InitBotFields
    /\ enable_recording = TRUE
    /\ stack = <<"client">>

RecorderStep ==
    \/ start_recording
    \/ stop_recording \/ StopJoinExited \/ StopJoinTimeout
    \/ StopSaveOk \/ StopSaveFails \/ StopSaveEmpty

ThreadStep ==
    \E t \in Threads :
        \/ ThreadLoop(t) \/ ThreadAppend(t)
        \/ ThreadReadError(t) \/ ThreadIncr(t)

Next ==
    \/ ClientStart \/ ClientStop
    \/ RecorderStep
    \/ ThreadStep
    \/ Tick

Spec == Init /\ [][Next]_vars

\* The steps of stop_recording.
StopStep ==
    \/ stop_recording \/ StopJoinExited \/ StopJoinTimeout
    \/ StopSaveOk \/ StopSaveFails \/ StopSaveEmpty

\* The controlling thread goes through stop_recording without being
\* suspended for good, and a capture thread that is not inside a stream
\* read runs on; a stream read may block for as long as it likes.
Running ==
    /\ WF_vars(StopStep)
    /\ \A t \in Threads : WF_vars(ThreadLoop(t)) /\ WF_vars(ThreadIncr(t))

\* The caller of Spec between whose calls no time passes: the clock moves
\* only while a join runs into its timeout.
NextLive ==
    \/ ClientStart \/ ClientStop
    \/ RecorderStep
    \/ ThreadStep

SpecLive == Init /\ [][NextLive]_vars /\ Running

\* A recorder on any of the devices.
InitDevice ==
    /\ InitRecorder
    /\ current_page = PageOf(MeetUrl, {}, {}, FALSE)
    /\ device_info \in Devices
    /\ InitBotFields
    /\ enable_recording = TRUE
    /\ stack = <<"client">>

SpecDevice == InitDevice /\ [][Next]_vars

\* A caller that also asks for the status.
NextStatus ==
    \/ ClientStart \/ ClientStop \/ ClientStatus
    \/ RecorderStep
    \/ ThreadStep
    \/ Tick

SpecStatus == Init /\ [][NextStatus]_vars

\* start_recording alone, on any of the devices.
NextNegotiate ==
    \/ ClientStart
    \/ start_recording
    \/ Tick

SpecNegotiate == InitDevice /\ [][NextNegotiate]_vars

\* The browser shows any page; nothing else has happened.
InitPage ==
    /\ InitRecorder
    /\ device_info = Device(2, 44100)
    /\ current_page \in AllPages
    /\ driver = "open"
    /\ opened = TRUE
    /\ bot_recording_filename = -1
    /\ is_in_meeting = FALSE
    /\ status = "none"
    /\ recording_started = FALSE
    /\ check_count = 0
    /\ exc = "none"
    /\ nsignals = 0
    /\ cleanups = 0
    /\ sigBuffered = FALSE
    /\ enable_recording = TRUE
    /\ stack = <<"main_run", "run_joined", "join_status">>

NextPage ==
    \/ Classify
    \/ Detect

SpecPage == InitPage /\ [][NextPage]_vars

\* main(): AnonymousGoogleMeetBot(meeting_link, bot_name, enable_recording)
InitBot ==
    /\ InitRecorder
    /\ current_page = PageOf(MeetUrl, {}, {}, FALSE)
    /\ device_info = Device(2, 44100)
    /\ InitBotFields
    /\ enable_recording \in BOOLEAN
    /\ stack = <<"main">>

BotStep ==
    \/ MainRun \/ RunSetupOk \/ RunSetupFails
    \/ JoinClicked \/ JoinFails \/ JoinStatus \/ JoinReturn
    \/ RunJoined \/ RunStayed \/ RunFinally \/ RunReturn
    \/ BotStartEntry \/ BotStartReturn \/ BotStopEntry \/ BotStopReturn
    \/ StaySleep \/ StayDetect \/ StayStatus \/ StayStarted \/ StayReport
    \/ StayBreak \/ StayFinally \/ StayReturn
    \/ CleanupEntry \/ CleanupRecorder \/ CleanupQuit

ExitStep ==
    \/ Signal \/ SignalExit
    \/ UnwindPlain \/ UnwindStop \/ UnwindToFinally \/ Reraise
    \/ AtExit \/ ProcessExit

NextBot ==
    \/ BotStep
    \/ RecorderStep
    \/ ThreadStep
    \/ ExitStep

SpecBot == InitBot /\ [][NextBot]_vars

\* The monitoring loop run for MaxQuietChecks iterations
StaySleepQuiet == StaySleepUpTo(MaxQuietChecks)

\* AnonymousGoogleMeetBot.run with no signal delivered
NextQuiet ==
    \/ MainRun \/ RunSetupOk \/ RunSetupFails
    \/ JoinClicked \/ JoinFails \/ JoinStatus \/ JoinReturn
    \/ RunJoined \/ RunStayed \/ RunFinally \/ RunReturn
    \/ BotStartEntry \/ BotStartReturn \/ BotStopEntry \/ BotStopReturn
    \/ StaySleepQuiet \/ StayDetect \/ StayStatus \/ StayStarted \/ StayReport
    \/ StayBreak \/ StayFinally \/ StayReturn
    \/ CleanupEntry \/ CleanupRecorder \/ CleanupQuit
    \/ RecorderStep
    \/ ThreadStep
    \/ AtExit \/ ProcessExit

SpecQuiet == InitBot /\ [][NextQuiet]_vars

\* The same session with the controller always taking its next step: the
\* thread of run() is never suspended for good, it sleeps and goes on.
SpecQuietLive == SpecQuiet /\ WF_vars(NextQuiet)

\* The pages shown to a whole session: any URL, an in-call indicator
\* displayed or none, no phrase, any one phrase or any two phrases in the
\* source, a driver that answers or raises.
ShownPages ==
    { page \in AllPages : /\ page.displayed \in {{}, {"Leave call"}}
                          /\ Cardinality(page.text) <= 2 }

\* A session in which the browser shows one page from the first iteration
\* of the monitoring loop on: the two checks of an iteration see the same
\* URL and the same content.
InitShown ==
    /\ InitRecorder
    /\ current_page \in ShownPages
    /\ device_info = Device(2, 44100)
    /\ InitBotFields
    /\ enable_recording \in BOOLEAN
    /\ stack = <<"main">>

NextShown ==
    \/ MainRun \/ RunSetupOk \/ RunSetupFails
    \/ JoinClicked \/ JoinFails \/ JoinStatus \/ JoinReturn
    \/ RunJoined \/ RunStayed \/ RunFinally \/ RunReturn
    \/ BotStartEntry \/ BotStartReturn \/ BotStopEntry \/ BotStopReturn
    \/ StaySleep \/ StayDetectShown \/ StayStatusShown \/ StayStarted
    \/ StayReport \/ StayBreak \/ StayFinally \/ StayReturn
    \/ CleanupEntry \/ CleanupRecorder \/ CleanupQuit
    \/ RecorderStep
    \/ ThreadStep
    \/ AtExit \/ ProcessExit

SpecShown == InitShown /\ [][NextShown]_vars

\* The bot is constructed with recording enabled or disabled; then either
\* bot.run() is called, as main() does, or the bot's start_recording and
\* stop_recording are called directly.  No signal is delivered.
InitCaller ==
    /\ InitRecorder
    /\ current_page = PageOf(MeetUrl, {}, {}, FALSE)
    /\ device_info = Device(2, 44100)
    /\ InitBotFields
    /\ enable_recording \in BOOLEAN
    /\ stack \in {<<"main">>, <<"caller">>}

NextCaller ==
    \/ CallerStart \/ CallerStop
    \/ NextQuiet

SpecCaller == InitCaller /\ [][NextCaller]_vars

\* join_meeting has been called on a driver that is open.
InitJoin ==
    /\ InitRecorder
    /\ current_page = PageOf(MeetUrl, {}, {}, FALSE)
    /\ device_info = Device(2, 44100)
    /\ InitBotFields
    /\ enable_recording \in BOOLEAN
    /\ stack = <<"main_run", "run_joined", "join_pre">>

\* The URL step of join_meeting.
NextUrl ==
    \/ JoinEnter
    \/ UrlTry
    \/ UrlExhausted
    \/ JoinUrlChecked

SpecUrl == InitJoin /\ [][NextUrl]_vars

\* The capture thread calls _log_recording_stats, with any block of up to
\* MaxSamples samples last in the buffer.
InitLevel ==
    /\ InitFields
    /\ current_page = PageOf(MeetUrl, {}, {}, FALSE)
    /\ device_info = Device(2, 44100)
    /\ InitBotFields
    /\ enable_recording = TRUE
    /\ stack = <<"client">>
    /\ media = MediaIdle
    /\ \E started \in BOOLEAN, total \in {0, 1}, n \in 0..MaxSamples :
          \E last_frame \in BlocksOf(n) :
             level = [LevelIdle EXCEPT
                        !.pc = "call",
                        !.started = started,
                        !.total = total,
                        !.frames = IF n = 0 THEN <<>> ELSE <<last_frame>>]

NextLevel == log_recording_stats

SpecLevel == InitLevel /\ [][NextLevel]_vars

\* join_meeting has loaded a page and is at its media step: the microphone
\* and the camera are on or off, and the page shows any control for each,
\* or none.
InitMedia ==
    /\ InitFields
    /\ level = LevelIdle
    /\ current_page = PageOf(MeetUrl, {}, {}, FALSE)
    /\ device_info = Device(2, 44100)
    /\ driver = "open"
    /\ opened = TRUE
    /\ bot_recording_filename = -1
    /\ is_in_meeting = FALSE
    /\ status = "none"
    /\ recording_started = FALSE
    /\ check_count = 0
    /\ exc = "none"
    /\ nsignals = 0
    /\ cleanups = 0
    /\ sigBuffered = FALSE
    /\ enable_recording = TRUE
    /\ stack = <<"main_run", "run_joined", "join_media">>
    /\ \E mic \in ControlsOf("microphone"), cam \in ControlsOf("camera"),
          micOn, camOn \in BOOLEAN :
          media = [MediaIdle EXCEPT
                     !.on = [d \in MediaDevices |->
                               IF d = "microphone" THEN micOn ELSE camOn],
                     !.dom = [d \in MediaDevices |->
                                IF d = "microphone" THEN mic ELSE cam]]

\* The media step of join_meeting.
NextMedia ==
    \/ JoinMedia
    \/ EnsureMicrophone \/ EnsureCamera \/ EnsureVerify
    \/ ToggleWhile \/ ToggleSelector \/ ToggleRoundEnd

SpecMedia == InitMedia /\ [][NextMedia]_vars

\* join_meeting has loaded the meeting's page and gone through the media
\* settings.
InitEntry ==
    /\ InitRecorder
    /\ current_page = PageOf(MeetUrl, {}, {}, FALSE)
    /\ device_info = Device(2, 44100)
    /\ driver = "open"
    /\ opened = TRUE
    /\ bot_recording_filename = -1
    /\ is_in_meeting = FALSE
    /\ status = "none"
    /\ recording_started = FALSE
    /\ check_count = 0
    /\ exc = "none"
    /\ nsignals = 0
    /\ cleanups = 0
    /\ sigBuffered = FALSE
    /\ enable_recording \in BOOLEAN
    /\ stack = <<"main_run", "run_joined", "join_name">>

\* The name entry and the join button of join_meeting, and the run of the
\* bot from there with no signal delivered.
NextEntry ==
    \/ JoinName \/ NameTry \/ NameNotFound \/ JoinNamed
    \/ ButtonTry \/ ButtonMissing \/ ButtonClick
    \/ JoinButtonChecked \/ JoinExcept
    \/ JoinStatus \/ JoinReturn
    \/ RunJoined \/ RunStayed \/ RunFinally \/ RunReturn
    \/ BotStartEntry \/ BotStartReturn \/ BotStopEntry \/ BotStopReturn
    \/ StaySleep \/ StayDetect \/ StayStatus \/ StayStarted \/ StayReport
    \/ StayBreak \/ StayFinally \/ StayReturn
    \/ CleanupEntry \/ CleanupRecorder \/ CleanupQuit
    \/ RecorderStep
    \/ ThreadStep
    \/ AtExit \/ ProcessExit

SpecEntry == InitEntry /\ [][NextEntry]_vars


\* ================================================================= claims
\* The capture tasks inside the capture loop's read or append.
Capturing == {t \in Threads : tpc[t] \in {"blocked", "incr"}}

\* C1: start_recording called while a recording is active returns False and
\* changes nothing: the recorder's fields, the capture threads, the files and
\* the clock are as before, and no capture task is launched.
C1_StartWhileActiveIsNoOp ==
    [][(Top = "start_entry" /\ is_recording /\ stack' # stack)
        => /\ stack' = Pop
           /\ ret' = RetBool(FALSE)
           /\ UNCHANGED <<recVars, thrVars, now, joinStart, fsVars, histVars>>]_vars

\* C1 witness: a start call has returned False to the caller while the
\* recording it found active is still active.
C1_Witness ==
    /\ Top = "client"
    /\ ret = RetBool(FALSE)
    /\ is_recording
    /\ frames # <<>>

\* C2: stop_recording called while no recording is active returns None and
\* has no side effects: no file is written, the stream, buffer, counters,
\* start time and filename are as before.
C2_StopWhileInactiveIsNoOp ==
    [][(Top = "stop_entry" /\ ~is_recording /\ stack' # stack)
        => /\ stack' = Pop
           /\ ret' = RetNone
           /\ UNCHANGED <<recVars, thrVars, now, joinStart, fsVars, histVars>>]_vars

\* C2 witness: the only session's stop has written its file (and returned its
\* path), and a later stop call, made while inactive, has returned None.
C2_Witness ==
    /\ Top = "client"
    /\ ret = RetNone
    /\ ~is_recording
    /\ Len(sessFile) = 1
    /\ Len(writeLog) = 1

\* C3 (the claim as stated): at most one capture task is inside the capture
\* loop's read or append.
C3_AtMostOneCaptureTask == Cardinality(Capturing) <= 1

\* C4 (the claim as stated): stop_recording drains the buffer only when no
\* capture task can still append to it.
C4_DrainAfterTaskExited ==
    Top = "stop_save" => \A t \in Threads : tpc[t] \in {"unstarted", "done"}

\* C4 (amended): stop_recording drains the buffer only after it has signalled
\* the capture task to stop and its wait for the task has returned, because
\* the task exited or because the 10 s bound has passed; a recording is
\* drained at most once, and exactly once when its stop_recording returns.
C4_DrainAfterSignalAndJoin ==
    /\ Top = "stop_save"
         => /\ ~is_recording
            /\ joinStart # -1
            /\ \/ tpc[audio_thread] = "done"
               \/ now >= joinStart + JoinTimeout * TicksPerSecond
    /\ drains <= 1
    /\ (Top = "client" /\ ~is_recording /\ sessFile # <<>>) => drains = 1

\* C4 witness: the drain of a non-empty buffer is about to happen, the wait
\* having timed out with the capture task still blocked in its read.
C4_Witness ==
    /\ Top = "stop_save"
    /\ frames # <<>>
    /\ tpc[audio_thread] = "blocked"

\* C5: the controller starts a recording only on a status it has just
\* classified as "joined": whenever a call of the bot's start_recording, and
\* through it of AudioRecorder.start_recording, is in progress, the status
\* last returned by check_meeting_status is "joined", and the call was made
\* by the very step that obtained that status.
C5_StartOnlyWhenJoined ==
    [][/\ (\E i \in 1..Len(stack') : stack'[i] \in {"botstart_entry", "start_entry"})
            => status' = "joined"
       /\ (Top' = "botstart_entry" /\ Top # "botstart_entry" /\ Len(stack') > Len(stack))
            => /\ Top \in {"join_status", "stay_status"}
               /\ \E page \in Pages : /\ check_meeting_status(page) = "joined"
                                        /\ status' = check_meeting_status(page)]_vars

\* C5 witness: the recorder was started from the monitoring loop, on a check
\* that came after a join whose status was not "joined".
C5_Witness ==
    /\ is_recording
    /\ is_in_meeting
    /\ recording_started
    /\ status = "joined"
    /\ Len(sessFile) = 1
    /\ sessFile[1] > Timestamp(3 * TicksPerSecond)

\* C6 (the claim as stated): no two recording sessions of a recorder get the
\* same filename.
C6_FilenamesNeverReused ==
    \A i, j \in 1..Len(sessFile) : i # j => sessFile[i] # sessFile[j]

\* Frame i of the stack is a call of AudioRecorder.stop_recording made by
\* cleanup: by AudioRecorder.cleanup, or by the bot's stop_recording that the
\* bot's cleanup called.
CleanupStops(i) ==
    /\ stack[i] = "stop_entry"
    /\ \/ stack[i - 1] = "cleanup_quit"
       \/ stack[i - 1] = "botstop_ret" /\ stack[i - 2] = "cleanup_rec"

\* C7: the cleanup path, run by run's finally block, by the signal handler
\* and by the atexit hook, never raises, and no recording file is written a
\* second time.
C7_CleanupTwiceIsSafe ==
    /\ exc # "Exception"
    /\ \A i, j \in 1..Len(writeLog) : i # j => writeLog[i] # writeLog[j]
    /\ Len(writeLog) <= Len(sessFile)

\* C7 witness: the process has exited after three complete cleanups (the
\* signal handler's, that of run's finally block and the atexit hook's), the
\* browser was released and the recording was written once.
C7_Witness ==
    /\ stack = <<>>
    /\ cleanups >= 3
    /\ driver = "quit"
    /\ Len(writeLog) = 1

\* C8 (the claim as stated): when a signal is delivered while a recording
\* with a non-empty buffer is active or is being stopped, the buffer has been
\* handed to the file writer by the time the browser is released.
C8_SignalPersistsBeforeRelease ==
    (sigBuffered /\ driver = "quit") => drains > 0

\* C9 (the claim as stated): the browser is never released while the
\* recording is active or AudioRecorder.stop_recording has not yet returned.
C9_StopBeforeQuit ==
    driver = "quit" => (~is_recording /\ ~Stopping)

\* C10: cleanup reached with no driver, with recording disabled or with no
\* recording started completes without raising, calls stop_recording only on
\* an active recorder (and makes no recorder call at all when recording is
\* disabled), and quits only a driver that was opened.
C10_CleanupFromPartialInit ==
    /\ exc # "Exception"
    /\ (Top = "stop_entry" /\ CleanupStops(Len(stack))) => is_recording
    /\ ~enable_recording
         => \A i \in 1..Len(stack) :
               stack[i] \notin {"start_entry", "stop_entry", "stop_wait",
                                "stop_save", "cleanup_rec"}
    /\ driver = "quit" => opened
    /\ (stack = <<>> /\ ~opened) => (driver = "none" /\ cleanups >= 1)

\* C10 witness: the process has exited after two complete cleanups, the
\* driver never having been opened and no recording ever started.
C10_Witness ==
    /\ stack = <<>>
    /\ driver = "none"
    /\ sessFile = <<>>
    /\ cleanups >= 2

\* The recorder is idle with its buffer, frame count and start time cleared.
IdleAndCleared ==
    /\ ~is_recording
    /\ frames = <<>>
    /\ total_frames_recorded = 0
    /\ recording_start_time = -1

C12_PayloadLength ==
    ret.k = "path"
        => /\ ret.data # <<>>
           /\ \A i \in 1..Len(ret.data) : ret.data[i] \in Threads
           /\ PayloadBytes(ret.data)
                 = Len(ret.data) * chunk * WaveHeader.nchannels * 2

\* C13: a stream is opened with the smaller of the configured and the
\* device's channel count, and with the smaller of the configured and the
\* device's default rate; on a device with one input channel it has one
\* channel.
C13_NegotiatedMinimum ==
    audio_stream # 0
        => /\ stream_format.channels <= channels
           /\ stream_format.channels <= device_info.maxInputChannels
           /\ stream_format.channels \in {channels, device_info.maxInputChannels}
           /\ stream_format.rate <= rate
           /\ stream_format.rate <= device_info.defaultSampleRate
           /\ stream_format.rate \in {rate, device_info.defaultSampleRate}
           /\ device_info.maxInputChannels = 1 => stream_format.channels = 1

\* C13 witness: a recording is active on a device with one input channel and
\* a default rate below the configured one, its stream opened with one
\* channel at the device's rate.
C13_Witness ==
    /\ is_recording
    /\ audio_stream # 0
    /\ device_info = Device(1, 22050)
    /\ stream_format = [channels |-> 1, rate |-> 22050]

\* C14: stop_recording on an active recording whose buffer is empty returns
\* None after the "no audio data" warning and writes no file.
C14_EmptyStopWritesNothing ==
    [][(Top = "stop_save" /\ frames = <<>> /\ stack' # stack)
        => /\ stack' = Pop
           /\ ret' = RetNoAudioData
           /\ ret'.k = "None"
           /\ writeLog' = writeLog]_vars

\* C14 witness: the stop of the first recording, of which no block was read,
\* has returned None with the warning, and no file has been written.
C14_Witness ==
    /\ Top = "client"
    /\ ret = RetNoAudioData
    /\ ~is_recording
    /\ Len(sessFile) = 1
    /\ writeLog = <<>>

\* C15 (the claim as stated): on a page the driver can read,
\* detect_disconnection returns True exactly when the URL is not on the
\* session's domain or the content has a disconnect phrase.
C15_DisconnectedIffOffDomainOrPhrase ==
    (disconnected # {} /\ ~current_page.broken)
        => disconnected = { \/ Host(current_page.url) # MeetDomain
                            \/ current_page.text \cap DisconnectPhrases # {} }

\* C16: on a page the driver can read, check_meeting_status gives "joined"
\* when an in-call indicator is displayed, whatever the text; otherwise
\* "waiting" when the text has a waiting phrase; otherwise "ended" when it
\* has an ended phrase; otherwise "unknown".
C16_StructuralPrecedence ==
    (status # "none" /\ ~current_page.broken)
        => /\ current_page.displayed # {} => status = "joined"
           /\ (/\ current_page.displayed = {}
               /\ current_page.text \cap WaitingPhrases # {}) => status = "waiting"
           /\ (/\ current_page.displayed = {}
               /\ current_page.text \cap WaitingPhrases = {}
               /\ current_page.text \cap EndedPhrases # {}) => status = "ended"
           /\ (/\ current_page.displayed = {}
               /\ current_page.text \cap WaitingPhrases = {}
               /\ current_page.text \cap EndedPhrases = {}) => status = "unknown"

\* C16 witness: a page with an indicator displayed, a waiting phrase and an
\* ended phrase has been classified "joined".
C16_Witness ==
    /\ status = "joined"
    /\ "Leave call" \in current_page.displayed
    /\ "waiting for the host" \in current_page.text
    /\ "meeting ended" \in current_page.text

\* The reason the bot's stop_recording is called with, by the position its
\* caller resumes at.
ReasonAt(resume) ==
    CASE resume = "stay_disc" -> "Disconnection detected"
      [] resume = "stay_ended" -> "Meeting ended"
      [] resume \in {"stay_return", "stay_reraise"} -> "Bot shutdown"
      [] resume = "cleanup_rec" -> "Bot cleanup"
      [] OTHER -> "none"

\* The position of stay_in_meeting, while run is in it.
StayPos ==
    IF Len(stack) >= 3 /\ stack[2] = "run_stayed" THEN stack[3] ELSE "none"

\* The positions inside the while loop, and those it is left to.
InLoop == {"stay_sleep", "stay_detect", "stay_status", "stay_started",
           "stay_report"}
LoopExit == {"stay_break", "stay_disc", "stay_ended", "stay_finally",
             "stay_finally_exc"}

\* C17 (the claim as stated): in an iteration where detect_disconnection
\* returns True while a recording is active, stop_recording is called with
\* the disconnection reason, and the loop is then left without a status
\* classification.
C17_DisconnectStopsWithReason ==
    [][/\ (/\ StayPos = "stay_detect"
           /\ is_recording
           /\ exc = "none"
           /\ nsignals' = nsignals
           /\ StayPos' \in LoopExit)
            => /\ Top' = "botstop_entry"
               /\ ReasonAt(StayPos') = "Disconnection detected"
       /\ (StayPos \in {"stay_break", "stay_disc"} /\ StayPos' # StayPos)
            => StayPos' \in {"stay_finally", "stay_finally_exc", "none"}]_vars

\* C18 (the claim as stated): in an iteration where the status is classified
\* "ended" while a recording is active, stop_recording is called with the
\* ended reason, and the loop is then left.
C18_EndedStopsWithReason ==
    [][/\ (/\ StayPos = "stay_status"
           /\ is_recording
           /\ exc = "none"
           /\ nsignals' = nsignals
           /\ status' = "ended"
           /\ StayPos' # StayPos)
            => /\ Top' = "botstop_entry"
               /\ ReasonAt(StayPos') = "Meeting ended"
       /\ (StayPos = "stay_ended" /\ StayPos' # StayPos)
            => StayPos' \in {"stay_finally", "stay_finally_exc", "none"}]_vars

\* C19 (the claim as stated): in every iteration where the status is
\* classified "joined", recording is enabled and no recording is active, the
\* loop calls start_recording.
C19_StartAttemptedWheneverJoined ==
    [][(/\ StayPos = "stay_status"
        /\ exc = "none"
        /\ nsignals' = nsignals
        /\ StayPos' # StayPos
        /\ status' = "joined"
        /\ enable_recording
        /\ ~is_recording)
         => Top' = "botstart_entry"]_vars

\* C20: the loop is left only from the detector's check, from a status
\* classified "ended", or by the exit a signal raises; an iteration whose
\* status is "joined", "waiting", "unknown" or "error" goes on, through a
\* start_recording that may fail and through the media enforcement, to the
\* next sleep and the next check.
C20_LoopLeftOnlyOnEndedOrDisconnect ==
    [][/\ (StayPos \in InLoop /\ StayPos' \notin InLoop)
            => /\ StayPos' \in LoopExit
               /\ \/ StayPos = "stay_detect"
                  \/ StayPos = "stay_status" /\ status' = "ended"
                  \/ exc = "SystemExit"
       /\ (/\ StayPos = "stay_status"
           /\ exc = "none"
           /\ StayPos' # StayPos
           /\ status' \in {"joined", "waiting", "unknown", "error"})
            => StayPos' \in {"stay_started", "stay_report"}
       /\ (StayPos = "stay_started" /\ StayPos' # StayPos /\ exc = "none")
            => StayPos' = "stay_report"
       /\ (StayPos = "stay_report" /\ StayPos' # StayPos /\ exc = "none")
            => StayPos' = "stay_sleep"
       /\ (StayPos = "stay_sleep" /\ StayPos' # StayPos /\ exc = "none")
            => StayPos' = "stay_detect" /\ check_count' = check_count + 1]_vars

\* C20 witness: the loop is at its sleep again after five iterations, the
\* fifth with its media enforcement, a start_recording having failed in one
\* of them and the last status being "unknown".
C20_Witness ==
    /\ StayPos = "stay_sleep"
    /\ Top = "stay_sleep"
    /\ check_count = MediaCheckEvery
    /\ recording_started
    /\ ~is_recording
    /\ sessFile = <<>>
    /\ status = "unknown"

\* C21: the variations are tried in order; a variation whose page shows no
\* restriction phrase is accepted at once, none being navigated after it and
\* none before it having shown a clean page; when all of them showed a
\* restriction the last one is the page loaded; and in every case
\* try_meeting_url_variations returns True and join_meeting goes on to the
\* media step.
C21_UrlStepFailsOpen ==
    /\ nav.tried = [k \in 1..nav.i |-> k]
    /\ nav.accepted # 0
         => /\ nav.accepted = nav.i
            /\ nav.loaded = nav.accepted
            /\ nav.accepted \notin nav.restricted
            /\ Top \in {"join_url_ret", "join_media"}
    /\ nav.restricted = 1..NumVariations
         => /\ nav.loaded = NumVariations
            /\ nav.accepted = 0
            /\ Top \in {"url_loop", "join_url_ret", "join_media"}
    /\ Top = "join_url_ret" => ret = RetBool(TRUE)
    /\ Len(stack) >= 3
    /\ stack[3] \in {"join_pre", "join_url_ret", "join_media"}

\* C21 witness: every variation showed a restriction, and join_meeting is at
\* its media step with the last variation loaded and the warning logged.
C21_Witness ==
    /\ Top = "join_media"
    /\ nav.restricted = 1..NumVariations
    /\ nav.loaded = NumVariations
    /\ nav.warned

\* C22: enter_name returns True however it ends, and join_meeting goes on
\* to the join button whether or not a name field was found; with no join
\* button found join_meeting returns False; and once join_meeting has
\* returned False the monitoring loop is never entered and no recording is
\* ever started.
C22_NameToleratedButtonRequired ==
    /\ Top = "join_name_ret" => (ret = RetBool(TRUE) /\ entry.name # "none")
    /\ entry.failed => ~entry.clicked
    /\ (Top = "run_joined" /\ entry.clicked) => ret = RetBool(TRUE)
    /\ entry.bmisses = NumJoinSelectors
         => \/ Top = "button_loop"
            \/ Top = "join_button_ret" /\ ret = RetBool(FALSE)
            \/ entry.failed
    /\ (Top = "run_joined" /\ ret = RetBool(FALSE)) <=>
            (Top = "run_joined" /\ entry.failed)
    /\ entry.failed
         => /\ StayPos = "none"
            /\ check_count = 0
            /\ sessFile = <<>>
            /\ ~is_recording
            /\ audio_thread = 0
            /\ \A i \in 1..Len(stack) :
                   stack[i] \notin {"botstart_entry", "start_entry"}

\* C22 witness: the bot has run to its end with no name field and no join
\* button on the page: enter_name returned True, join_meeting False.
C22_Witness ==
    /\ entry.name = "absent"
    /\ entry.bmisses = NumJoinSelectors
    /\ entry.failed
    /\ cleanups = 1
    /\ driver = "quit"

\* C23 (the claim as stated): the status observed by join_meeting and by the
\* successive iterations of the monitoring loop alternates between "joined"
\* and "waiting" at most once: no run observes "joined", then "waiting",
\* then "joined", then "waiting" again.
C23_WaitingJoinedAlternateOnce ==
    ~<>(/\ status = "joined"
        /\ <>(/\ status = "waiting"
              /\ <>(/\ status = "joined"
                    /\ <>(status = "waiting"))))

\* C25: a start_recording that is entered with the recorder idle and
\* returns False (the device information or the open of the stream raised)
\* leaves the recorder idle, with no stream, no new capture thread and no
\* new session, and raises nothing: its caller resumes, and the bot's
\* start_recording returns to the join or to the monitoring loop.
C25_OpenFailureIsNotFatal ==
    [][/\ (/\ Top = "start_entry"
           /\ ~is_recording
           /\ Top' # "start_entry"
           /\ ret' = RetBool(FALSE))
            => /\ ~is_recording'
               /\ audio_stream' = audio_stream
               /\ audio_thread' = audio_thread
               /\ tpc' = tpc
               /\ frames' = frames
               /\ sessFile' = sessFile
               /\ exc' = "none"
               /\ stack' = Pop
               /\ Top' = "botstart_ret"
       /\ (Top = "botstart_ret" /\ Top' # "botstart_ret")
            => /\ exc' = "none"
               /\ stack' = Pop
               /\ Top' \in {"join_ret", "stay_started"}]_vars

\* C25 witness: the recorder's start_recording has returned False to the
\* bot after the open of the stream failed in the monitoring loop: the
\* filename is assigned, and there is no recording, stream or thread.
C25_Witness ==
    /\ Top = "botstart_ret"
    /\ StayPos = "stay_started"
    /\ ret = RetBool(FALSE)
    /\ recording_filename # -1
    /\ ~is_recording
    /\ audio_stream = 0
    /\ audio_thread = 0
    /\ tpc = [t \in Threads |-> "unstarted"]

\* C26: when stop_recording returns from its save, it returns either a path
\* or None; a path only when the file of that name has just been written
\* with every block the buffer held; and in both cases, a failed save
\* included, the buffer is empty afterwards.
C26_PathOnlyForWrittenFile ==
    [][(Top = "stop_save" /\ Top' # "stop_save")
        => /\ stack' = Pop
           /\ frames' = <<>>
           /\ total_frames_recorded' = 0
           /\ IF ret'.k = "path"
                THEN /\ frames # <<>>
                     /\ ret'.v = recording_filename
                     /\ ret'.data = frames
                     /\ writeLog' = Append(writeLog, ret'.v)
                ELSE /\ ret'.k = "None"
                     /\ writeLog' = writeLog]_vars

\* C26 witness: a stop whose buffer held blocks has returned None with no
\* file written, and the buffer is empty.
C26_Witness ==
    /\ Top = "client"
    /\ ret = RetNone
    /\ drains = 1
    /\ writeLog = <<>>
    /\ frames = <<>>
    /\ total_frames_recorded = 0
    /\ ~is_recording

\* C27: get_recording_status returns in the step it is called in and
\* changes no field of the recorder, no thread and no file; with no
\* recording active it returns is_recording False, duration 0,
\* frames_captured 0 and filename None; with one active it returns
\* is_recording True, the counter of captured blocks, the filename of the
\* session being recorded, and the time passed since its start.
C27_StatusIsPureSnapshot ==
    [][(ret'.k = "status" /\ ret' # ret)
        => /\ UNCHANGED <<recVars, thrVars, fsVars, histVars, stack, now>>
           /\ Top' = "client"
           /\ IF ~is_recording
                THEN ret'.snapshot =
                       [is_recording |-> FALSE, duration |-> 0,
                        frames_captured |-> 0, filename |-> -1]
                ELSE /\ ret'.snapshot.is_recording
                     /\ ret'.snapshot.frames_captured = total_frames_recorded
                     /\ ret'.snapshot.filename = sessFile[Len(sessFile)]
                     /\ recording_start_time # -1
                     /\ ret'.snapshot.duration = now - recording_start_time
                     /\ ret'.snapshot.duration >= 0]_vars

\* C27 witness: the status returned during a recording that has captured a
\* block and has run for some time.
C27_Witness ==
    /\ Top = "client"
    /\ ret.k = "status"
    /\ ret.snapshot.is_recording
    /\ ret.snapshot.frames_captured > 0
    /\ ret.snapshot.duration > 0
    /\ ret.snapshot.filename # -1

\* C28: when _log_recording_stats estimates the level of the last block,
\* the estimate is the largest |sample| of the block's 16-bit signed
\* samples over 32768, as a percentage; a block of zero samples gives 0%
\* and the low-level warning; and the warning is given exactly when the
\* estimate is below 1%.
C28_AmplitudeEstimate ==
    (level.pc = "done" /\ "Current audio level" \in level.log)
        => LET last_frame == level.frames[Len(level.frames)]
               n == Len(last_frame) \div 2
               Sample(k) ==
                   LET u == last_frame[2 * k - 1] + 256 * last_frame[2 * k]
                   IN  IF u < 32768 THEN u ELSE u - 65536
               Mag(k) == IF Sample(k) < 0 THEN -Sample(k) ELSE Sample(k)
               percent == level.percent
           IN  /\ percent.den = 32768
               /\ \A k \in 1..n : Mag(k) * 100 <= percent.num
               /\ \E k \in 1..n : Mag(k) * 100 = percent.num
               /\ (\A i \in 1..Len(last_frame) : last_frame[i] = 0)
                    => /\ percent.num = 0
                       /\ "Audio levels very low" \in level.log
               /\ "Audio levels very low" \in level.log
                    <=> percent.num < percent.den

\* C28 witness: the level of a block of two zero samples has been
\* estimated at 0% and the low-level warning given.
C28_Witness ==
    /\ level.pc = "done"
    /\ level.frames = <<(<<0, 0, 0, 0>>)>>
    /\ level.percent = [num |-> 0, den |-> 32768]
    /\ level.log = {"Current audio level", "Audio levels very low"}

\* The call of _toggle_media_button for device d has returned after
\* MaxAttempts rounds in which no element was found that could be acted on.
Exhausted(d) ==
    /\ media.call[d].done
    /\ media.call[d].attempts = MaxAttempts
    /\ ~media.call[d].toggled
    /\ ~media.call[d].found

\* C24 (the claim as stated): when ensure_muted_and_camera_off has returned
\* to join_meeting and a call of _toggle_media_button in it went through
\* all 5 rounds without an element to act on, nothing was raised, no click
\* was issued on that device, a warning has been logged, and join_meeting
\* goes on.
C24_ExhaustionWarnsAndReturns ==
    \A d \in MediaDevices :
        (Top = "join_name" /\ Exhausted(d))
            => /\ exc = "none"
               /\ media.call[d].clicks = 0
               /\ media.on[d] = media.call[d].on0
               /\ media.warnings # {}

\* C29 (the claim as stated): a call of _toggle_media_button for a device
\* that was off when it was called, its control labelled to turn it on,
\* returns with no click issued and the device off.
C29_EnforcementIsIdempotent ==
    \A d \in MediaDevices :
        (media.call[d].done /\ ~media.call[d].on0)
            => /\ media.call[d].clicks = 0
               /\ ~media.on[d]

\* C30 (the claim as stated): one call of _toggle_media_button issues at
\* most one click on the control of its device.
C30_AtMostOneClickPerCall ==
    \A d \in MediaDevices : media.call[d].clicks <= 1

\* C31: a step of a capture thread out of its read either appends exactly
\* one block and leaves the count alone until the increment that follows,
\* which adds one to the count and nothing to the buffer, or, on a read
\* error, appends nothing, leaves the count unchanged and returns to the
\* loop test; a thread leaves its loop only from the loop test, with
\* is_recording False.
C31_CaptureLoopSteps ==
    [][\A t \in Threads :
        /\ (tpc[t] = "blocked" /\ tpc'[t] = "incr")
              => /\ frames' = Append(frames, t)
                 /\ total_frames_recorded' = total_frames_recorded
        /\ (tpc[t] = "incr" /\ tpc'[t] # "incr")
              => /\ tpc'[t] = "loop"
                 /\ total_frames_recorded' = total_frames_recorded + 1
                 /\ frames' = frames
        /\ (tpc[t] = "blocked" /\ tpc'[t] \notin {"blocked", "incr"})
              => /\ tpc'[t] = "loop"
                 /\ frames' = frames
                 /\ total_frames_recorded' = total_frames_recorded
        /\ (tpc[t] # "done" /\ tpc'[t] = "done")
              => /\ tpc[t] = "loop"
                 /\ ~is_recording
    ]_vars

\* A read of the active recording has returned its second block: it is in
\* the buffer and the count is about to follow.
C31_Witness ==
    \E t \in Threads :
        /\ is_recording
        /\ tpc[t] = "incr"
        /\ audio_thread = t
        /\ Len(frames) = 2
        /\ frames[2] = t
        /\ total_frames_recorded = 1

\* C32: a stop_recording that has been entered returns to its caller, also
\* when the capture thread stays blocked in its stream read: the join gives
\* up after its timeout and the stream is closed and the buffer saved.
C32_StopTerminates ==
    (Top = "stop_entry") ~> (Top = "client" /\ ret.k \in {"None", "path"}
                             /\ ~is_recording)

\* stop_recording has returned the path of the file it wrote, after a join
\* that ran into its timeout: the thread is still in its read and the
\* stream is closed.
C32_Witness ==
    /\ Top = "client"
    /\ ret.k = "path"
    /\ writeLog # <<>>
    /\ audio_thread # 0
    /\ tpc[audio_thread] = "blocked"
    /\ audio_stream = 0
    /\ ~is_recording
    /\ now >= JoinTimeout * TicksPerSecond

\* C33 (the claim as stated): a capture thread whose recording has been
\* stopped, so that its stop signal was set before the buffer was last
\* cleared, has appended at most one block since: the buffer holds at most
\* one block of a thread that is not the recorder's current one.
C33_AtMostOneAppendAfterSignal ==
    \A t \in Threads :
        (tpc[t] # "unstarted" /\ t # audio_thread)
            => Cardinality({i \in DOMAIN frames : frames[i] = t}) <= 1

\* C34: an iteration goes from its sleep to the disconnection check, from
\* there to the status classification, then to the start of the recording
\* if there is one, then to the status report and the media enforcement,
\* which end it.  The enforcement, the only part of an iteration after its
\* sleep that takes time apart from the start and the stop of the
\* recording, is run at the end of the iterations whose number is a
\* multiple of 5 and of no other, and a step that leaves the loop runs
\* none.
C34_IterationOrderAndMediaEveryFifth ==
    [][(exc = "none" /\ exc' = "none") =>
       /\ (StayPos = "stay_report" /\ StayPos' # StayPos)
            => /\ StayPos' = "stay_sleep"
               /\ (now' >= now + 3 * TicksPerSecond)
                     <=> (check_count % MediaCheckEvery = 0)
               /\ (now' = now) <=> (check_count % MediaCheckEvery # 0)
       /\ (StayPos = "stay_detect" /\ StayPos' # StayPos)
            => /\ StayPos' \in {"stay_status", "stay_disc", "stay_break"}
               /\ status' = status
               /\ now' = now
       /\ (StayPos = "stay_status" /\ StayPos' # StayPos)
            => /\ StayPos' \in {"stay_started", "stay_report", "stay_ended",
                                "stay_break"}
               /\ now' = now
       /\ (StayPos \in InLoop /\ StayPos' \in LoopExit) => now' = now
       /\ (StayPos \in InLoop /\ status' # status) => StayPos = "stay_status"
       /\ (StayPos \in InLoop /\ now' # now)
            => \/ StayPos = "stay_sleep" /\ StayPos' = "stay_detect"
               \/ StayPos = "stay_report" /\ StayPos' = "stay_sleep"
               \/ Top \in {"botstart_entry", "stop_wait"}
    ]_vars

\* The fifth iteration of a session without recording has ended: its media
\* enforcement, the only one so far, took its 3 seconds, and the loop is at
\* its sleep again.
C34_Witness ==
    /\ StayPos = "stay_sleep"
    /\ check_count = MediaCheckEvery
    /\ ~enable_recording
    /\ now = (MediaCheckEvery * 30 + 3) * TicksPerSecond

\* C35 (the claim as stated): when stop_recording has written a file, the
\* channel count and the sample rate of its header are those the capture
\* stream was opened with.
C35_HeaderIsNegotiatedFormat ==
    (Top = "client" /\ ret.k = "path")
        => /\ WaveHeader.nchannels = stream_format.channels
           /\ WaveHeader.framerate = stream_format.rate

\* C36 (the claim as stated): while the recorder is idle, is_recording
\* False and no stop_recording in progress, the buffer is empty and the
\* frame count is 0; and the buffer of a recording holds no block of the
\* thread of an earlier one.
C36_IdleBufferEmpty ==
    /\ (~is_recording /\ ~Stopping)
          => (frames = <<>> /\ total_frames_recorded = 0)
    /\ is_recording
          => \A i \in DOMAIN frames : frames[i] = audio_thread

\* C37: once run has called stay_in_meeting and the call is over, by its
\* return or by the SystemExit of the signal handler passing through its
\* finally block, the recorder is not recording, whether the recording was
\* started by the loop or by join_meeting before it.
C37_NotRecordingAfterStay ==
    (/\ Len(stack) >= 2
     /\ stack[2] = "run_stayed"
     /\ StayPos \notin InLoop \cup LoopExit \cup {"stay_return", "stay_reraise"})
        => ~is_recording

\* stay_in_meeting has returned after a disconnection; the recording that
\* join_meeting had started, unknown to the loop, was stopped in the
\* finally block and its file written.
C37_Witness ==
    /\ Top = "run_stayed"
    /\ sessFile # <<>>
    /\ ~recording_started
    /\ ~is_recording
    /\ drains = 1
    /\ writeLog # <<>>
    /\ nsignals = 0

\* C38: every ended phrase is a disconnect phrase, and in an iteration
\* whose two checks see the same page the detector returns True on every
\* page the classifier would call "ended": the classification, when it is
\* reached, never gives "ended", and the loop is never left from it.
C38_EndedBranchNeverTakenOnSamePage ==
    [][/\ EndedPhrases \subseteq DisconnectPhrases
       /\ (/\ StayPos = "stay_detect"
           /\ StayPos' # StayPos
           /\ check_meeting_status(current_page) = "ended")
            => StayPos' \in {"stay_disc", "stay_break"}
       /\ (StayPos = "stay_status" /\ StayPos' # StayPos)
            => /\ status' # "ended"
               /\ StayPos' \in {"stay_started", "stay_report"}
       /\ StayPos' # "stay_ended"
    ]_vars

\* The first iteration was ended by the detector on a page of the meeting
\* that the classifier calls "ended".
C38_Witness ==
    /\ StayPos = "stay_break"
    /\ check_count = 1
    /\ ~current_page.broken
    /\ Host(current_page.url) = MeetDomain
    /\ check_meeting_status(current_page) = "ended"

\* C39: when the driver raises on the reads of detect_disconnection, the
\* iteration goes from the detector's check out of the loop, to the stop of
\* the recording the loop has started or to the break, never on to the
\* classification, the report or a next sleep; and once stay_in_meeting has
\* returned no recording is active.
C39_DetectorFailsClosed ==
    current_page.broken
        => /\ StayPos \notin {"stay_status", "stay_started", "stay_report",
                              "stay_ended"}
           /\ (StayPos = "stay_sleep" => check_count = 0)
           /\ (Top = "run_stayed" => (~is_recording /\ check_count = 1))

\* The driver raised in the first iteration while the recording that
\* join_meeting had started was active: stay_in_meeting has returned, and
\* the recording was stopped and saved.
C39_Witness ==
    /\ current_page.broken
    /\ Top = "run_stayed"
    /\ check_count = 1
    /\ sessFile # <<>>
    /\ ~is_recording
    /\ writeLog # <<>>

\* C40: with recording disabled no capture stream has been opened, no
\* capture thread started and no file written, the recorder's methods are
\* not entered, and a call of the bot's start_recording returns False, one
\* of its stop_recording None, changing nothing else.
C40_DisabledRecordingDoesNothing ==
    [][~enable_recording =>
       /\ sessFile = <<>> /\ sessFile' = <<>>
       /\ writeLog' = <<>>
       /\ audio_stream' = 0
       /\ ~is_recording'
       /\ \A t \in Threads : tpc'[t] = "unstarted"
       /\ \A i \in 1..Len(stack') :
             stack'[i] \notin {"start_entry", "stop_entry", "stop_wait",
                              "stop_save", "botstart_ret", "botstop_ret"}
       /\ Top = "botstart_entry"
             => /\ ret' = RetBool(FALSE)
                /\ stack' = Pop
                /\ UNCHANGED <<recVars, thrVars, fsVars, histVars, botVars,
                               now>>
       /\ Top = "botstop_entry"
             => /\ ret' = RetNone
                /\ stack' = Pop
                /\ UNCHANGED <<recVars, thrVars, fsVars, histVars, botVars,
                               now>>
    ]_vars

\* With recording disabled, the caller has its False back from the bot's
\* start_recording.
C40_Witness ==
    /\ ~enable_recording
    /\ stack = <<"caller">>
    /\ ret = RetBool(FALSE)
    /\ sessFile = <<>>
    /\ now = 0

====
